---------------------------- MODULE Spec2Model ----------------------------
(***************************************************************************)
(* Model of dignity's declarative hook dispatch: matchers, trigger groups, *)
(* rule evaluation, output formatting, state actions and the dispatcher,   *)
(* over the per-session state store.                                       *)
(*                                                                         *)
(* Python values are modelled as follows.  A str is a TLA+ string, None is *)
(* the reserved string None.  A dict is a function whose domain is its key *)
(* set (a record), a frozenset is a set, a list or tuple is a sequence.    *)
(* The re and pathlib libraries are modelled by their results on the       *)
(* concrete strings of the vocabulary below (tables computed with Python). *)
(***************************************************************************)
EXTENDS Integers, Sequences, FiniteSets, TLC

VARIABLES
    store,      \* the state store: (session_id, key) -> value or None
    pc,         \* position of the current pass: "idle", "exec", "done", "raised"
    via,        \* how the pass was entered: "dispatch" (raw payload) or "context"
    hook_event, \* the event of the current pass
    context,    \* the HookContext of the current pass
    rules,      \* the RuleSet of the current pass, in iteration order
    matches,    \* analyze_hook's result for the current pass
    out,        \* what the current pass has written to stdout, in order
    idx,        \* index in matches of the next state action to execute
    store0,     \* the store as it was when the current pass began
    writes,     \* number of store writes (set, clear) the current pass has made
    raised,     \* where the current pass raised: "" or the failing stage
    procs       \* the passes of concurrent processes: process -> its local state

vars == <<store, pc, via, hook_event, context, rules, matches, out, idx,
          store0, writes, raised, procs>>

----------------------------------------------------------------------------
(* Bounds of the model *)

\* rules in one rule set of a pass of Spec
MaxRules == 2

\* rules in one rule set handed to analyze_hook in MatchSpec
MaxMatchRules == 3

(* Python's None *)
None == "<None>"

EmptyDict == [x \in {} |-> None]

Get(d, k, default) == IF k \in DOMAIN d THEN d[k] ELSE default

\* dict.update: entries of e win
Update(d, e) == [k \in DOMAIN d \cup DOMAIN e |-> IF k \in DOMAIN e THEN e[k] ELSE d[k]]

Range(s) == {s[i] : i \in DOMAIN s}

----------------------------------------------------------------------------
(* Vocabulary: the concrete strings the model ranges over *)

HookEvents == {"UserPromptSubmit", "Stop", "SubagentStop"}

SessionIds == {"s1"}

Keys == {"focus"}

SpecPathPattern == "specs/active/(?P<spec_id>[^/]+)/tasks\\.md"

AreaPathPattern == "specs/(?P<area>[^/]+)/"

\* a valid regex that finds no path of the model, and a glob that matches the task files
GlobOnlyPattern == "specs/*/*/tasks.md"

Paths == {"specs/active/my-feature/tasks.md", "specs/active/other/tasks.md", "README.md"}

\* patterns on which re.compile raises re.error
ReErrorPatterns == {"(unclosed", "*.md"}

\* (pattern, text) pairs on which re.search(pattern, text) finds a match
ReHits ==
    { <<"deploy", "deploy the app">>,
      <<"spec", "Review my spec">>,
      <<"spec", "specs/active/my-feature/tasks.md">>,
      <<"spec", "specs/active/other/tasks.md">>,
      <<SpecPathPattern, "specs/active/my-feature/tasks.md">>,
      <<SpecPathPattern, "specs/active/other/tasks.md">>,
      <<AreaPathPattern, "specs/active/my-feature/tasks.md">>,
      <<AreaPathPattern, "specs/active/other/tasks.md">>,
      <<"tasks\\.md$", "specs/active/my-feature/tasks.md">>,
      <<"tasks\\.md$", "specs/active/other/tasks.md">>,
      <<"tdd_evidence", "tdd_evidence: pass">>,
      <<"tdd_evidence", "tdd_evidence tests_written">>,
      <<"tests_written", "tdd_evidence tests_written">>,
      <<"TODO", "TODO: write tests">>,
      <<"done", "done">> }

\* pairs that match only under re.IGNORECASE
ReHitsIgnoreCase ==
    { <<"review.*spec", "Review my spec">>,
      <<"todo", "TODO: write tests">> }

\* re.search(pattern, text[, re.IGNORECASE]): "error", "match" or "nomatch"
re_search(pattern, text, ignorecase) ==
    IF pattern \in ReErrorPatterns THEN "error"
    ELSE IF <<pattern, text>> \in ReHits THEN "match"
    ELSE IF ignorecase /\ <<pattern, text>> \in ReHitsIgnoreCase THEN "match"
    ELSE "nomatch"

\* match.groupdict() of a successful re.search(pattern, text)
groupdict(pattern, text) ==
    IF pattern = SpecPathPattern /\ text = "specs/active/my-feature/tasks.md"
    THEN [spec_id |-> "my-feature"]
    ELSE IF pattern = SpecPathPattern /\ text = "specs/active/other/tasks.md"
    THEN [spec_id |-> "other"]
    ELSE IF pattern = AreaPathPattern /\ text \in Paths \ {"README.md"}
    THEN [area |-> "active"]
    ELSE EmptyDict

\* Path(text).match(pattern), glob-style, matched from the right
PathMatch(text, pattern) ==
    \/ pattern = "*.md" /\ text \in Paths
    \/ pattern = GlobOnlyPattern /\ text \in Paths \ {"README.md"}

\* str.lower()
Lower(s) ==
    CASE s = "Coder" -> "coder"
      [] s = "Review my spec" -> "review my spec"
      [] s = "TODO: write tests" -> "todo: write tests"
      [] s = "TODO" -> "todo"
      [] OTHER -> s

\* (keyword, text) pairs where re.search(rf"\b{re.escape(keyword)}\b", text) hits,
\* both already lower-cased
WordHits ==
    { <<"deploy", "deploy the app">>,
      <<"app", "deploy the app">>,
      <<"spec", "review my spec">>,
      <<"todo", "todo: write tests">>,
      <<"tdd_evidence", "tdd_evidence: pass">>,
      <<"tdd_evidence", "tdd_evidence tests_written">>,
      <<"tests_written", "tdd_evidence tests_written">> }

\* (needle, text) pairs with needle a substring of text, case-sensitive
SubstringHits ==
    { <<"deploy", "deploy the app">>,
      <<"app", "deploy the app">>,
      <<"spec", "Review my spec">>,
      <<"spec", "specs/active/my-feature/tasks.md">>,
      <<"spec", "specs/active/other/tasks.md">>,
      <<"tdd_evidence", "tdd_evidence: pass">>,
      <<"tdd_evidence", "tdd_evidence tests_written">>,
      <<"tests_written", "tdd_evidence tests_written">>,
      <<"TODO", "TODO: write tests">>,
      <<"todo", "todo: write tests">> }

\* Python's `needle in text` on two str
StrIn(needle, text) == needle = "" \/ needle = text \/ <<needle, text>> \in SubstringHits

\* the files on disk: path -> text content, None when the file does not exist
FileContent(path) ==
    CASE path = "specs/active/my-feature/tasks.md" -> "TODO: write tests"
      [] path = "README.md" -> "done"
      [] OTHER -> None

----------------------------------------------------------------------------
(* Pattern matchers: (value, patterns) -> the matched subset of patterns *)

match_word_boundaries(value, patterns) ==
    IF value = "" \/ patterns = {} THEN {}
    ELSE {keyword \in patterns : <<Lower(keyword), Lower(value)>> \in WordHits}

match_regex(value, patterns) ==
    IF value = "" \/ patterns = {} THEN {}
    ELSE {pattern \in patterns : re_search(pattern, value, TRUE) = "match"}

match_exact(value, patterns) ==
    IF value = "" \/ patterns = {} THEN {}
    ELSE {p \in patterns : Lower(p) = Lower(value)}

match_substring(value, patterns) ==
    IF value = "" \/ patterns = {} THEN {}
    ELSE {p \in patterns : StrIn(Lower(p), Lower(value))}

\* FIELD_MATCHERS: the matcher registered for a text field, None when unknown
FIELD_MATCHERS(field_name) ==
    CASE field_name \in {"keywords", "prompt"} -> "match_word_boundaries"
      [] field_name \in {"intent_patterns", "description_patterns", "output_patterns",
                         "content_patterns", "path_patterns"} -> "match_regex"
      [] field_name \in {"agent_types", "subagent_type"} -> "match_exact"
      [] OTHER -> None

ApplyMatcher(matcher, value, patterns) ==
    CASE matcher = "match_word_boundaries" -> match_word_boundaries(value, patterns)
      [] matcher = "match_regex" -> match_regex(value, patterns)
      [] matcher = "match_exact" -> match_exact(value, patterns)
      [] OTHER -> {}

----------------------------------------------------------------------------
(* Trigger types.  is_active() of each sub-trigger *)

ToolResultTrigger(tool_name, parameter_patterns) ==
    [tool_name |-> tool_name, parameter_patterns |-> parameter_patterns]

TodoStateTrigger(any_completed, all_completed) ==
    [any_completed |-> any_completed, all_completed |-> all_completed]

SkillInvokedTrigger(skill) == [skill |-> skill]

OutputMissingTrigger(required_patterns) == [required_patterns |-> required_patterns]

FilesChangedTrigger(path_patterns, content_patterns) ==
    [path_patterns |-> path_patterns, content_patterns |-> content_patterns]

StateExistsTrigger(key) == [key |-> key]

tool_result_is_active(t) == t.tool_name # {}

todo_state_is_active(t) == t.any_completed \/ t.all_completed

skill_invoked_is_active(t) == t.skill # ""

output_missing_is_active(t) == t.required_patterns # {}

files_changed_is_active(t) == t.path_patterns # {} \/ t.content_patterns # {}

state_exists_is_active(t) == t.key # ""

\* TriggerGroup with every field at its default
DefaultGroup ==
    [patterns |-> EmptyDict,
     tool_result |-> ToolResultTrigger({}, EmptyDict),
     todo_state |-> TodoStateTrigger(FALSE, FALSE),
     skill_invoked |-> SkillInvokedTrigger(""),
     output_missing |-> OutputMissingTrigger({}),
     files_changed |-> FilesChangedTrigger({}, {}),
     state_exists |-> StateExistsTrigger("")]

----------------------------------------------------------------------------
(* The state store (state.py), one file per (session_id, key) *)

StatePaths == SessionIds \X Keys

state_get(st, session_id, key) ==
    IF <<session_id, key>> \in DOMAIN st THEN st[<<session_id, key>>] ELSE None

state_exists(st, session_id, key) ==
    <<session_id, key>> \in DOMAIN st /\ st[<<session_id, key>>] # None

state_set(st, session_id, key, value) ==
    [st EXCEPT ![<<session_id, key>>] = value]

state_clear(st, session_id, key) ==
    [st EXCEPT ![<<session_id, key>>] = None]

----------------------------------------------------------------------------
(* Specialized sub-trigger matchers: (trigger, context) -> evidence *)

\* a tool-use record whose "parameters" is JSON null
NoneParams == [py_none |-> TRUE]

\* Faulty variant of ToolResultHit: parameter patterns add evidence, a tool-name
\* hit counts without them
ToolResultHitUnrefined(trigger, result) ==
    LET result_tool == Get(result, "tool_name", "")
        params == Get(result, "parameters", EmptyDict)
    IN  IF result_tool \notin trigger.tool_name THEN {}
        ELSE {result_tool} \cup
             UNION {match_regex(Get(params, param_name, ""),
                                trigger.parameter_patterns[param_name]) :
                    param_name \in DOMAIN trigger.parameter_patterns}

\* evidence one tool-use record contributes
ToolResultHit(trigger, result) ==
    LET result_tool == Get(result, "tool_name", "")
        params == Get(result, "parameters", EmptyDict)
        param_matched ==
            UNION {match_regex(Get(params, param_name, ""),
                               trigger.parameter_patterns[param_name]) :
                   param_name \in DOMAIN trigger.parameter_patterns}
    IN  IF result_tool \notin trigger.tool_name THEN {}
        ELSE IF DOMAIN trigger.parameter_patterns = {} THEN {result_tool}
        ELSE IF param_matched # {} THEN {result_tool} \cup param_matched
        ELSE {}

match_tool_result_trigger(trigger, ctx) ==
    IF trigger.tool_name = {} THEN {}
    ELSE LET tool_results == Get(ctx, "tool_results", <<>>)
         IN  UNION {ToolResultHit(trigger, tool_results[i]) : i \in DOMAIN tool_results}

\* params.get raises AttributeError when a hit record's parameters is None
tool_result_raises(trigger, ctx) ==
    /\ trigger.tool_name # {}
    /\ DOMAIN trigger.parameter_patterns # {}
    /\ LET tool_results == Get(ctx, "tool_results", <<>>)
       IN  \E i \in DOMAIN tool_results :
              /\ Get(tool_results[i], "tool_name", "") \in trigger.tool_name
              /\ Get(tool_results[i], "parameters", EmptyDict) = NoneParams

\* Faulty variant of match_todo_state_trigger: every requested flag has to hold
match_todo_state_trigger_all(trigger, ctx) ==
    LET todo_state == Get(ctx, "todo_state", EmptyDict)
    IN  IF /\ trigger.any_completed => Get(todo_state, "any_completed", FALSE)
           /\ trigger.all_completed => Get(todo_state, "all_completed", FALSE)
        THEN {f \in {"any_completed"} : trigger.any_completed}
             \cup {f \in {"all_completed"} : trigger.all_completed}
        ELSE {}

match_todo_state_trigger(trigger, ctx) ==
    LET todo_state == Get(ctx, "todo_state", EmptyDict)
    IN  {f \in {"any_completed"} : trigger.any_completed /\ Get(todo_state, f, FALSE)}
        \cup
        {f \in {"all_completed"} : trigger.all_completed /\ Get(todo_state, f, FALSE)}

match_skill_invoked_trigger(trigger, ctx) ==
    IF trigger.skill \in Get(ctx, "invoked_skills", {}) THEN {trigger.skill} ELSE {}

\* Faulty variant of match_output_missing_trigger: fires when any pattern is absent
match_output_missing_trigger_any(trigger, ctx) ==
    IF trigger.required_patterns = {} THEN {}
    ELSE {pattern \in trigger.required_patterns :
             ~StrIn(pattern, Get(ctx, "last_response", ""))}

match_output_missing_trigger(trigger, ctx) ==
    IF trigger.required_patterns = {} THEN {}
    ELSE LET last_response == Get(ctx, "last_response", "")
             missing == {pattern \in trigger.required_patterns :
                            ~StrIn(pattern, last_response)}
         IN  IF missing = trigger.required_patterns THEN missing ELSE {}

\* `pattern not in last_response` raises TypeError when last_response is None
output_missing_raises(trigger, ctx) ==
    /\ trigger.required_patterns # {}
    /\ Get(ctx, "last_response", "") = None

\* Faulty variant of match_state_exists_trigger: a context without session_id is
\* looked up under the session of the last writer
match_state_exists_trigger_any_session(trigger, ctx, st) ==
    IF trigger.key = "" THEN {}
    ELSE IF \E s \in SessionIds : state_exists(st, s, trigger.key) THEN {trigger.key}
    ELSE {}

match_state_exists_trigger(trigger, ctx, st) ==
    IF trigger.key = "" THEN {}
    ELSE LET session_id == Get(ctx, "session_id", "")
         IN  IF session_id = "" THEN {}
             ELSE IF state_exists(st, session_id, trigger.key) THEN {trigger.key}
             ELSE {}

\* match_file_content: regex patterns found in the file's text
match_file_content(path, patterns) ==
    IF patterns = {} \/ FileContent(path) = None THEN {}
    ELSE match_regex(FileContent(path), patterns)

\* Faulty variant of PathPatternHit: the glob is tried whenever the regex finds nothing
PathPatternHitGlobOnMiss(pattern, path_str) ==
    IF re_search(pattern, path_str, FALSE) = "match" THEN TRUE
    ELSE PathMatch(path_str, pattern)

\* whether a path pattern hits a path: regex first, glob when the regex is invalid
PathPatternHit(pattern, path_str) ==
    IF re_search(pattern, path_str, FALSE) = "error" THEN PathMatch(path_str, pattern)
    ELSE re_search(pattern, path_str, FALSE) = "match"

\* named groups a path pattern yields on a path (none on the glob fallback)
PathPatternCaptures(pattern, path_str) ==
    IF re_search(pattern, path_str, FALSE) = "match" THEN groupdict(pattern, path_str)
    ELSE EmptyDict

RECURSIVE MergeDicts(_)
\* captures.update over a set of dicts whose key sets are pairwise disjoint
MergeDicts(ds) ==
    IF ds = {} THEN EmptyDict
    ELSE LET d == CHOOSE x \in ds : TRUE
         IN  Update(MergeDicts(ds \ {d}), d)

RECURSIVE PathCaptures(_, _, _)
\* the captures dict after the first n changed files have been processed
PathCaptures(trigger, changed_files, n) ==
    IF n = 0 THEN EmptyDict
    ELSE Update(PathCaptures(trigger, changed_files, n - 1),
                MergeDicts({PathPatternCaptures(p, changed_files[n]) :
                            p \in trigger.path_patterns}))

\* Faulty variant of match_files_changed_trigger: the path evidence and the
\* captures are kept when no content matches
match_files_changed_trigger_keep_paths(trigger, ctx) ==
    LET changed_files == Get(ctx, "changed_files", <<>>)
        path_matched == {p \in trigger.path_patterns :
                            \E i \in DOMAIN changed_files :
                                PathPatternHit(p, changed_files[i])}
        content_matches == UNION {match_file_content(changed_files[i],
                                                     trigger.content_patterns) :
                                  i \in DOMAIN changed_files}
        nothing == [matched |-> {}, captures |-> EmptyDict]
    IN  IF ~files_changed_is_active(trigger) THEN nothing
        ELSE IF changed_files = <<>> THEN nothing
        ELSE IF path_matched # {} /\ trigger.content_patterns # {}
        THEN [matched |-> path_matched \cup content_matches,
              captures |-> PathCaptures(trigger, changed_files, Len(changed_files))]
        ELSE [matched |-> path_matched,
              captures |-> PathCaptures(trigger, changed_files, Len(changed_files))]

\* Faulty variant of match_files_changed_trigger: the content is checked whether
\* or not a path pattern hit
match_files_changed_trigger_content_alone(trigger, ctx) ==
    LET changed_files == Get(ctx, "changed_files", <<>>)
        path_matched == {p \in trigger.path_patterns :
                            \E i \in DOMAIN changed_files :
                                PathPatternHit(p, changed_files[i])}
        content_matches == UNION {match_file_content(changed_files[i],
                                                     trigger.content_patterns) :
                                  i \in DOMAIN changed_files}
        nothing == [matched |-> {}, captures |-> EmptyDict]
    IN  IF ~files_changed_is_active(trigger) THEN nothing
        ELSE IF changed_files = <<>> THEN nothing
        ELSE IF trigger.content_patterns # {}
        THEN IF content_matches = {} THEN nothing
             ELSE [matched |-> path_matched \cup content_matches,
                   captures |-> PathCaptures(trigger, changed_files, Len(changed_files))]
        ELSE [matched |-> path_matched,
              captures |-> PathCaptures(trigger, changed_files, Len(changed_files))]

\* match_files_changed_trigger: [matched |-> evidence, captures |-> dict]
match_files_changed_trigger(trigger, ctx) ==
    LET changed_files == Get(ctx, "changed_files", <<>>)
        path_matched == {p \in trigger.path_patterns :
                            \E i \in DOMAIN changed_files :
                                PathPatternHit(p, changed_files[i])}
        content_matches == UNION {match_file_content(changed_files[i],
                                                     trigger.content_patterns) :
                                  i \in DOMAIN changed_files}
        nothing == [matched |-> {}, captures |-> EmptyDict]
    IN  IF ~files_changed_is_active(trigger) THEN nothing
        ELSE IF changed_files = <<>> THEN nothing
        ELSE IF path_matched # {} /\ trigger.content_patterns # {}
        THEN IF content_matches = {} THEN nothing
             ELSE [matched |-> path_matched \cup content_matches,
                   captures |-> PathCaptures(trigger, changed_files, Len(changed_files))]
        ELSE [matched |-> path_matched,
              captures |-> PathCaptures(trigger, changed_files, Len(changed_files))]

----------------------------------------------------------------------------
(* Trigger group evaluation (matchers.py) *)

\* evidence of one text field of group.patterns
FieldMatches(patterns, field_name, ctx) ==
    LET value == Get(ctx, field_name, "")
    IN  IF patterns[field_name] = {} THEN {}
        ELSE IF FIELD_MATCHERS(field_name) = None THEN {}
        ELSE IF value = "" \/ value = None THEN {}
        ELSE ApplyMatcher(FIELD_MATCHERS(field_name), value, patterns[field_name])

\* Faulty variant of match_patterns: AND over the text fields
match_patterns_all(patterns, ctx) ==
    IF \A field_name \in DOMAIN patterns : FieldMatches(patterns, field_name, ctx) # {}
    THEN UNION {FieldMatches(patterns, field_name, ctx) : field_name \in DOMAIN patterns}
    ELSE {}

\* OR over the text fields: every matched pattern of any field
match_patterns(patterns, ctx) ==
    UNION {FieldMatches(patterns, field_name, ctx) : field_name \in DOMAIN patterns}

\* the members of a group, in the order the code evaluates them
Members == <<"patterns", "tool_result", "todo_state", "skill_invoked",
             "output_missing", "files_changed", "state_exists">>

\* whether a member counts into active_count
MemberActive(group, member) ==
    CASE member = "patterns" -> DOMAIN group.patterns # {}
      [] member = "tool_result" -> tool_result_is_active(group.tool_result)
      [] member = "todo_state" -> todo_state_is_active(group.todo_state)
      [] member = "skill_invoked" -> skill_invoked_is_active(group.skill_invoked)
      [] member = "output_missing" -> output_missing_is_active(group.output_missing)
      [] member = "files_changed" -> files_changed_is_active(group.files_changed)
      [] member = "state_exists" -> state_exists_is_active(group.state_exists)

\* the evidence a member's matcher returns
MemberMatches(group, member, ctx, st) ==
    CASE member = "patterns" -> match_patterns(group.patterns, ctx)
      [] member = "tool_result" -> match_tool_result_trigger(group.tool_result, ctx)
      [] member = "todo_state" -> match_todo_state_trigger(group.todo_state, ctx)
      [] member = "skill_invoked" -> match_skill_invoked_trigger(group.skill_invoked, ctx)
      [] member = "output_missing" -> match_output_missing_trigger(group.output_missing, ctx)
      [] member = "files_changed" -> match_files_changed_trigger(group.files_changed, ctx).matched
      [] member = "state_exists" -> match_state_exists_trigger(group.state_exists, ctx, st)

\* whether evaluating an active member raises
MemberRaises(group, member, ctx) ==
    CASE member = "tool_result" -> tool_result_raises(group.tool_result, ctx)
      [] member = "output_missing" -> output_missing_raises(group.output_missing, ctx)
      [] OTHER -> FALSE

\* match_trigger_group raises when an active member's matcher raises
GroupRaises(group, ctx) ==
    \E i \in DOMAIN Members :
        MemberActive(group, Members[i]) /\ MemberRaises(group, Members[i], ctx)

\* the None result of match_trigger_group
GroupNone == [is_none |-> TRUE, matched_patterns |-> {}, captures |-> EmptyDict]

\* indices in Members of the active members of a group
ActiveMembers(group) == {i \in DOMAIN Members : MemberActive(group, Members[i])}

\* the active members whose matcher returned evidence
MatchedMembers(group, ctx, st) ==
    {i \in ActiveMembers(group) : MemberMatches(group, Members[i], ctx, st) # {}}

\* Faulty variant of GroupEvidence: the captures of files_changed are dropped
GroupEvidenceNoCaptures(group, ctx, st, hit) ==
    [is_none |-> FALSE,
     matched_patterns |-> UNION {MemberMatches(group, Members[i], ctx, st) : i \in hit},
     captures |-> EmptyDict]

\* all_matched and captures over the members that matched
GroupEvidence(group, ctx, st, hit) ==
    [is_none |-> FALSE,
     matched_patterns |-> UNION {MemberMatches(group, Members[i], ctx, st) : i \in hit},
     captures |-> IF 6 \in hit
                  THEN match_files_changed_trigger(group.files_changed, ctx).captures
                  ELSE EmptyDict]

\* the final test of match_trigger_group: every active member matched
AllActiveMatched(group, ctx, st, active, hit) ==
    IF Cardinality(active) = 0 THEN GroupNone
    ELSE IF Cardinality(hit) = Cardinality(active) THEN GroupEvidence(group, ctx, st, hit)
    ELSE GroupNone

\* Faulty variant of AllActiveMatched: one matching active member is enough
AnyActiveMatched(group, ctx, st, active, hit) ==
    IF hit = {} THEN GroupNone ELSE GroupEvidence(group, ctx, st, hit)

\* Faulty variant of match_trigger_group: OR over the active members
match_trigger_group_any(group, ctx, st) ==
    AnyActiveMatched(group, ctx, st, ActiveMembers(group), MatchedMembers(group, ctx, st))

match_trigger_group(group, ctx, st) ==
    AllActiveMatched(group, ctx, st, ActiveMembers(group), MatchedMembers(group, ctx, st))

----------------------------------------------------------------------------
(* Trigger specs, actions and rules (types.py) *)

\* Faulty variant of make_default_groups: the implicit group is always created
make_default_groups_always(flat) == <<flat>>

\* _make_default_groups: the implicit group of the legacy flat fields
make_default_groups(flat) ==
    IF \E i \in DOMAIN Members : MemberActive(flat, Members[i]) THEN <<flat>> ELSE <<>>

\* TriggerSpec(...) after __post_init__: flat fields plus the groups tuple
TriggerSpec(flat, groups) ==
    Update(flat, [groups |-> IF groups = <<>> THEN make_default_groups(flat) ELSE groups])

SuggestSkillAction(skill, reason) == [type |-> "suggest_skill", skill |-> skill, reason |-> reason]

RemindAction(message) == [type |-> "remind", message |-> message]

BlockAction(reason) == [type |-> "block", reason |-> reason]

InjectContextAction(template) == [type |-> "inject_context", context |-> template]

SetStateAction(key, value_from) == [type |-> "set_state", key |-> key, value_from |-> value_from]

ClearStateAction(key) == [type |-> "clear_state", key |-> key]

Rule(name, priority, action, triggers) ==
    [name |-> name, priority |-> priority, action |-> action, triggers |-> triggers]

PRIORITY_ORDER(priority) ==
    CASE priority = "high" -> 0
      [] priority = "medium" -> 1
      [] priority = "low" -> 2

----------------------------------------------------------------------------
(* Rule evaluation (dispatcher.py) *)

\* the loop body of _match_rule: return on the first group that matches
FirstMatching(result, rest) ==
    IF ~result.is_none THEN [status |-> "match", result |-> result] ELSE rest

\* Faulty variant of FirstMatching: a later matching group wins
PreferLater(result, rest) ==
    IF rest.status # "none" THEN rest
    ELSE IF ~result.is_none THEN [status |-> "match", result |-> result]
    ELSE rest

RECURSIVE MatchGroupsLast(_, _, _, _)
\* Faulty variant of MatchGroups: the last matching group wins
MatchGroupsLast(groups, i, ctx, st) ==
    IF i > Len(groups) THEN [status |-> "none"]
    ELSE IF GroupRaises(groups[i], ctx) THEN [status |-> "raise"]
    ELSE PreferLater(match_trigger_group(groups[i], ctx, st),
                     MatchGroupsLast(groups, i + 1, ctx, st))

RECURSIVE MatchGroups(_, _, _, _)
\* the loop of _match_rule from group i on: the first matching group's result,
\* "none" when no group matches, "raise" when a group evaluated on the way raises
MatchGroups(groups, i, ctx, st) ==
    IF i > Len(groups) THEN [status |-> "none"]
    ELSE IF GroupRaises(groups[i], ctx) THEN [status |-> "raise"]
    ELSE FirstMatching(match_trigger_group(groups[i], ctx, st),
                       MatchGroups(groups, i + 1, ctx, st))

\* the groups _match_rule loops over: none when the event has no TriggerSpec
RuleGroups(rule, event) ==
    IF event \in DOMAIN rule.triggers THEN rule.triggers[event].groups ELSE <<>>

\* the Match _match_rule builds from the first matching group's result
MatchOf(rule, r) ==
    IF r.status = "match"
    THEN [status |-> "match",
          match |-> [rule_name |-> rule.name,
                     priority |-> rule.priority,
                     action |-> rule.action,
                     matched_patterns |-> r.result.matched_patterns,
                     captures |-> r.result.captures]]
    ELSE [status |-> r.status]

\* _match_rule: [status |-> "match", match |-> Match] or status "none" / "raise"
match_rule(rule, event, ctx, st) ==
    MatchOf(rule, MatchGroups(RuleGroups(rule, event), 1, ctx, st))

\* what the loop body of analyze_hook appends for a rule's result: its Match, or
\* nothing when the rule does not match or its evaluation raises
Appended(r) == IF r.status = "match" THEN <<r.match>> ELSE <<>>

RECURSIVE CollectMatchesUnguarded(_, _, _, _, _)
\* Faulty variant of CollectMatches: a raising rule ends the loop and loses the
\* matches collected before it
CollectMatchesUnguarded(rule_set, n, event, ctx, st) ==
    IF n = 0 THEN <<>>
    ELSE IF match_rule(rule_set[n], event, ctx, st).status = "raise" THEN <<>>
    ELSE CollectMatchesUnguarded(rule_set, n - 1, event, ctx, st)
         \o Appended(match_rule(rule_set[n], event, ctx, st))

RECURSIVE CollectMatches(_, _, _, _, _)
\* the loop of analyze_hook over the first n rules: the matches appended so far;
\* a rule that raises is recorded and skipped
CollectMatches(rule_set, n, event, ctx, st) ==
    IF n = 0 THEN <<>>
    ELSE CollectMatches(rule_set, n - 1, event, ctx, st)
         \o Appended(match_rule(rule_set[n], event, ctx, st))

RECURSIVE InsertSortedBefore(_, _)
\* Faulty variant of InsertSorted: inserts before equal keys, reversing ties
InsertSortedBefore(sorted, m) ==
    IF sorted = <<>> THEN <<m>>
    ELSE IF PRIORITY_ORDER(Head(sorted).priority) < PRIORITY_ORDER(m.priority)
    THEN <<Head(sorted)>> \o InsertSortedBefore(Tail(sorted), m)
    ELSE <<m>> \o sorted

RECURSIVE InsertSorted(_, _)
\* insert m after every element whose priority key is <= its own (stable)
InsertSorted(sorted, m) ==
    IF sorted = <<>> THEN <<m>>
    ELSE IF PRIORITY_ORDER(Head(sorted).priority) <= PRIORITY_ORDER(m.priority)
    THEN <<Head(sorted)>> \o InsertSorted(Tail(sorted), m)
    ELSE <<m>> \o sorted

RECURSIVE SortByPriority(_)
\* sorted(matches, key=PRIORITY_ORDER): a stable insertion sort
SortByPriority(ms) ==
    IF ms = <<>> THEN <<>>
    ELSE InsertSorted(SortByPriority(SubSeq(ms, 1, Len(ms) - 1)), ms[Len(ms)])

\* analyze_hook: matches of all rules, sorted by priority
analyze_hook(event, ctx, rule_set, st) ==
    IF DOMAIN ctx = {} \/ rule_set = <<>> THEN <<>>
    ELSE SortByPriority(CollectMatches(rule_set, Len(rule_set), event, ctx, st))

----------------------------------------------------------------------------
(* Output formatting (actions.py).  A text is a sequence of lines, a line a    *)
(* sequence of string pieces (the parts of an f-string); an output is a record *)

\* the key K of a "{state.K}" placeholder piece, None for any other piece
PlaceholderKey(piece) ==
    CASE piece = "{state.focus}" -> "focus"
      [] piece = "{state.owner}" -> "owner"
      [] OTHER -> None

\* Faulty variant of interpolate_state: the placeholder of an unset key is emptied
interpolate_state_blank(template, ctx, st) ==
    LET session_id == Get(ctx, "session_id", "")
    IN  IF session_id = "" THEN template
        ELSE [i \in DOMAIN template |->
                IF PlaceholderKey(template[i]) = None THEN template[i]
                ELSE IF state_get(st, session_id, PlaceholderKey(template[i])) # None
                THEN state_get(st, session_id, PlaceholderKey(template[i]))
                ELSE ""]

\* _interpolate_state: a template is one line
interpolate_state(template, ctx, st) ==
    LET session_id == Get(ctx, "session_id", "")
    IN  IF session_id = "" THEN template
        ELSE [i \in DOMAIN template |->
                IF PlaceholderKey(template[i]) = None THEN template[i]
                ELSE IF state_get(st, session_id, PlaceholderKey(template[i])) # None
                THEN state_get(st, session_id, PlaceholderKey(template[i]))
                ELSE template[i]]

RECURSIVE SkillsOf(_, _)
\* the SuggestSkill matches whose priority is in tiers, in match order
SkillsOf(ms, tiers) ==
    IF ms = <<>> THEN <<>>
    ELSE (IF Head(ms).action.type = "suggest_skill" /\ Head(ms).priority \in tiers
          THEN <<Head(ms).action>> ELSE <<>>)
         \o SkillsOf(Tail(ms), tiers)

RECURSIVE SkillLines(_, _)
\* "  - skill" and, when asked for and present, "    Reason: reason"
SkillLines(skills, with_reason) ==
    IF skills = <<>> THEN <<>>
    ELSE <<<<"  - ", Head(skills).skill>>>>
         \o (IF with_reason /\ Head(skills).reason # ""
             THEN <<<<"    Reason: ", Head(skills).reason>>>> ELSE <<>>)
         \o SkillLines(Tail(skills), with_reason)

\* format_skill_suggestions: <<>> is the empty string
format_skill_suggestions(ms) ==
    LET high == SkillsOf(ms, {"high"})
        medium == SkillsOf(ms, {"medium"})
        low == SkillsOf(ms, {"low"})
    IN  IF high = <<>> /\ medium = <<>> /\ low = <<>> THEN <<>>
        ELSE <<<<"SKILL ACTIVATION SUGGESTION">>, <<"">>>>
             \o (IF high # <<>>
                 THEN <<<<"HIGH PRIORITY:">>>> \o SkillLines(high, TRUE) ELSE <<>>)
             \o (IF medium # <<>>
                 THEN (IF high # <<>> THEN <<<<"">>>> ELSE <<>>)
                      \o <<<<"MEDIUM PRIORITY:">>>> \o SkillLines(medium, TRUE)
                 ELSE <<>>)
             \o (IF low # <<>>
                 THEN (IF high # <<>> \/ medium # <<>> THEN <<<<"">>>> ELSE <<>>)
                      \o <<<<"LOW PRIORITY:">>>> \o SkillLines(low, FALSE)
                 ELSE <<>>)
             \o <<<<"">>, <<"Consider invoking relevant skills with the Skill tool.">>>>

RECURSIVE ReminderLines(_)
\* "  - skill: reason" with the "Use skill" fallback
ReminderLines(skills) ==
    IF skills = <<>> THEN <<>>
    ELSE <<IF Head(skills).reason # ""
           THEN <<"  - ", Head(skills).skill, ": ", Head(skills).reason>>
           ELSE <<"  - ", Head(skills).skill, ": ", "Use ", Head(skills).skill>>>>
         \o ReminderLines(Tail(skills))

\* Faulty variant of format_stop_output: the lower tiers are listed in full
format_stop_output_untruncated(ms) ==
    LET high == SkillsOf(ms, {"high"})
        others == SkillsOf(ms, {"medium", "low"})
    IN  IF high = <<>> /\ others = <<>> THEN <<>>
        ELSE <<<<"Skill Reminder">>, <<"">>, <<"Consider:">>>>
             \o (IF high # <<>> THEN ReminderLines(high) ELSE SkillLines(others, FALSE))

\* format_reminder / format_stop_output
format_stop_output(ms) ==
    LET high == SkillsOf(ms, {"high"})
        others == SkillsOf(ms, {"medium", "low"})
    IN  IF high = <<>> /\ others = <<>> THEN <<>>
        ELSE <<<<"Skill Reminder">>, <<"">>, <<"Consider:">>>>
             \o (IF high # <<>> THEN ReminderLines(high)
                 ELSE SkillLines(SubSeq(others, 1, IF Len(others) < 2 THEN Len(others) ELSE 2),
                                 FALSE))

RECURSIVE InjectParts(_, _, _)
\* the interpolated template of every InjectContext match, in match order
InjectParts(ms, ctx, st) ==
    IF ms = <<>> THEN <<>>
    ELSE (IF Head(ms).action.type = "inject_context"
          THEN <<<<IF DOMAIN ctx # {}
                   THEN interpolate_state(Head(ms).action.context, ctx, st)
                   ELSE Head(ms).action.context>>>>
          ELSE <<>>)
         \o InjectParts(Tail(ms), ctx, st)

\* the JSON object {}
EmptyEnvelope == [json |-> "{}"]

\* {"hookSpecificOutput": {"hookEventName": ..., "additionalContext": ...}}
Envelope(event, parts) ==
    [json |-> "hookSpecificOutput", hookEventName |-> event, additionalContext |-> parts]

\* format_user_prompt_output; additionalContext is the sequence of joined blocks
format_user_prompt_output(ms, ctx, st) ==
    LET skill_text == format_skill_suggestions(ms)
        context_parts == (IF skill_text # <<>> THEN <<skill_text>> ELSE <<>>)
                         \o InjectParts(ms, ctx, st)
    IN  IF ms = <<>> THEN EmptyEnvelope
        ELSE IF context_parts = <<>> THEN EmptyEnvelope
        ELSE Envelope("UserPromptSubmit", context_parts)

RECURSIVE FirstBlock(_)
\* index-free scan for the first Block match: its action, or None
FirstBlock(ms) ==
    IF ms = <<>> THEN [type |-> None]
    ELSE IF Head(ms).action.type = "block" THEN Head(ms).action
    ELSE FirstBlock(Tail(ms))

\* the None return of format_subagent_stop_output
NoOutput == [json |-> None]

\* Faulty variant of format_subagent_stop_output: suggestions before the Block scan
format_subagent_stop_output_suggest_first(ms) ==
    IF format_skill_suggestions(ms) # <<>>
    THEN Envelope("SubagentStop", <<format_skill_suggestions(ms)>>)
    ELSE IF FirstBlock(ms).type = "block"
    THEN [json |-> "decision", decision |-> "block", reason |-> FirstBlock(ms).reason]
    ELSE NoOutput

format_subagent_stop_output(ms) ==
    IF FirstBlock(ms).type = "block"
    THEN [json |-> "decision", decision |-> "block", reason |-> FirstBlock(ms).reason]
    ELSE IF format_skill_suggestions(ms) # <<>>
    THEN Envelope("SubagentStop", <<format_skill_suggestions(ms)>>)
    ELSE NoOutput

----------------------------------------------------------------------------
(* Context extraction (extractors.py) *)

\* a payload that is not a JSON object (data.get raises AttributeError)
BadPayload == [py_list |-> TRUE]

extract_user_prompt_context(data) ==
    LET prompt == Get(data, "prompt", "")
    IN  [hook_event |-> "UserPromptSubmit", prompt |-> prompt,
         keywords |-> prompt, intent_patterns |-> prompt]

RECURSIVE extract_file_paths(_)
\* _extract_file_paths over the tool results (the payload's "files" array is absent)
extract_file_paths(tool_results) ==
    IF tool_results = <<>> THEN <<>>
    ELSE (IF "file_path" \in DOMAIN Head(tool_results)
          THEN <<Head(tool_results).file_path>> ELSE <<>>)
         \o extract_file_paths(Tail(tool_results))

extract_tool_names(tool_results) ==
    {Get(tool_results[i], "tool_name", "") : i \in DOMAIN tool_results} \ {""}

\* the todos lists of the TodoWrite results whose parameters are a dict
TodoLists(tool_results) ==
    {Get(Get(tool_results[i], "parameters", EmptyDict), "todos", <<>>) :
        i \in {j \in DOMAIN tool_results :
                  /\ Get(tool_results[j], "tool_name", None) = "TodoWrite"
                  /\ Get(tool_results[j], "parameters", EmptyDict) # NoneParams}} \ {<<>>}

CompletedCount(todos) ==
    Cardinality({i \in DOMAIN todos : Get(todos[i], "status", None) = "completed"})

extract_todo_state(tool_results) ==
    [any_completed |-> \E todos \in TodoLists(tool_results) : CompletedCount(todos) > 0,
     all_completed |-> \E todos \in TodoLists(tool_results) :
                           CompletedCount(todos) = Len(todos)]

extract_invoked_skills(tool_results) ==
    {Get(Get(tool_results[i], "parameters", EmptyDict), "skill", "") :
        i \in {j \in DOMAIN tool_results :
                  /\ Get(tool_results[j], "tool_name", None) = "Skill"
                  /\ Get(tool_results[j], "parameters", EmptyDict) # NoneParams}} \ {""}

\* Faulty variant of extract_stop_context: the payload's session_id and the file
\* paths of the tool results are supplied as session_id and changed_files
extract_stop_context_with_session(data) ==
    LET tool_results == Get(data, "tool_results", <<>>)
    IN  [hook_event |-> "Stop",
         session_id |-> Get(data, "session_id", ""),
         changed_files |-> extract_file_paths(tool_results),
         tool_names |-> extract_tool_names(tool_results),
         file_paths |-> extract_file_paths(tool_results),
         todo_state |-> extract_todo_state(tool_results),
         invoked_skills |-> extract_invoked_skills(tool_results),
         tool_results |-> tool_results]

extract_stop_context(data) ==
    LET tool_results == Get(data, "tool_results", <<>>)
    IN  [hook_event |-> "Stop",
         tool_names |-> extract_tool_names(tool_results),
         file_paths |-> extract_file_paths(tool_results),
         todo_state |-> extract_todo_state(tool_results),
         invoked_skills |-> extract_invoked_skills(tool_results),
         tool_results |-> tool_results]

extract_subagent_stop_context(data) ==
    [hook_event |-> "SubagentStop",
     description |-> Get(data, "description", ""),
     description_patterns |-> Get(data, "description", ""),
     agent_type |-> Get(data, "agent_type", ""),
     agent_types |-> Get(data, "agent_type", ""),
     last_response |-> Get(data, "last_response", "")]

\* extract_context raises on a payload that is not an object
extract_context_raises(event, data) == data = BadPayload

extract_context(event, data) ==
    CASE event = "UserPromptSubmit" -> extract_user_prompt_context(data)
      [] event = "Stop" -> extract_stop_context(data)
      [] event = "SubagentStop" -> extract_subagent_stop_context(data)

----------------------------------------------------------------------------
(* Rule loading (config.py): the rules file is missing, is not JSON, holds a *)
(* JSON value that is not an object, or holds an already parsed rule set     *)

RulesFileMissing == [file |-> "missing"]

RulesFileInvalidJson == [file |-> "invalid_json"]

RulesFileNotObject == [file |-> "not_object"]

RulesFile(rule_set) == [file |-> "rules", rules |-> rule_set]

\* data.get("rules", {}) raises AttributeError on a non-object
load_rules_raises(rules_file) == rules_file.file = "not_object"

load_rules(rules_file) ==
    IF rules_file.file = "rules" THEN rules_file.rules ELSE <<>>

----------------------------------------------------------------------------
(* State actions (dispatcher.py) *)

\* _extract_value: the "captured.<key>" reference, None when unresolved
CapturedRef(value_from) ==
    CASE value_from = "captured.spec_id" -> "spec_id"
      [] value_from = "captured.name" -> "name"
      [] value_from = "captured.area" -> "area"
      [] OTHER -> None

\* Faulty variant of extract_value: the reference itself when it does not resolve
extract_value_or_reference(value_from, captures) ==
    IF CapturedRef(value_from) = None THEN value_from
    ELSE Get(captures, CapturedRef(value_from), value_from)

extract_value(value_from, captures) ==
    IF CapturedRef(value_from) = None THEN None
    ELSE Get(captures, CapturedRef(value_from), None)

\* Faulty variant of SetStateOutcome: no existence check before the write
SetStateOutcomeOverwrite(st, session_id, action, captures) ==
    IF extract_value(action.value_from, captures) = None THEN "unresolved" ELSE "set"

\* what executing a SetState match does: "exists" (skip), "unresolved" (skip) or "set"
SetStateOutcome(st, session_id, action, captures) ==
    IF state_exists(st, session_id, action.key) THEN "exists"
    ELSE IF extract_value(action.value_from, captures) = None THEN "unresolved"
    ELSE "set"

\* Faulty variant of clear_raises: unlink without missing_ok
clear_raises_missing(st, session_id, key, fs_ok) ==
    ~state_exists(st, session_id, key) \/ ~fs_ok

\* whether state.clear raises: unlink(missing_ok=True) passes over a missing
\* file, so only the removal of an existing file can fail
clear_raises(st, session_id, key, fs_ok) ==
    state_exists(st, session_id, key) /\ ~fs_ok

\* whether state.set raises: mkdir or write_text fails
set_raises(fs_ok) == ~fs_ok

\* Faulty variant of execute_action: the ClearState case is missing
execute_action_without_clear(st, session_id, m) ==
    CASE m.action.type = "set_state" ->
            IF SetStateOutcome(st, session_id, m.action, m.captures) = "set"
            THEN state_set(st, session_id, m.action.key,
                           extract_value(m.action.value_from, m.captures))
            ELSE st
      [] OTHER -> st

\* one iteration of the loop of _execute_actions, the store write succeeding
execute_action(st, session_id, m) ==
    CASE m.action.type = "set_state" ->
            IF SetStateOutcome(st, session_id, m.action, m.captures) = "set"
            THEN state_set(st, session_id, m.action.key,
                           extract_value(m.action.value_from, m.captures))
            ELSE st
      [] m.action.type = "clear_state" -> state_clear(st, session_id, m.action.key)
      [] OTHER -> st

RECURSIVE ExecuteFrom(_, _, _, _)
\* the store after the loop has run from match i to the end
ExecuteFrom(st, session_id, ms, i) ==
    IF i > Len(ms) THEN st
    ELSE ExecuteFrom(execute_action(st, session_id, ms[i]), session_id, ms, i + 1)

\* _execute_actions as a whole, every store write succeeding
execute_actions(ms, ctx, st) ==
    IF Get(ctx, "session_id", "") = "" THEN st
    ELSE ExecuteFrom(st, Get(ctx, "session_id", ""), ms, 1)

----------------------------------------------------------------------------
(* The dispatcher's output step (dispatcher.py) *)

\* _output_empty: what is written for an event with nothing to say
output_empty(event) ==
    IF event = "UserPromptSubmit" THEN <<EmptyEnvelope>> ELSE <<>>

\* Faulty variant of format_and_write: an empty envelope when there is no output
format_and_write_empty_envelope(event, ms, ctx, st) ==
    CASE event = "UserPromptSubmit" -> <<format_user_prompt_output(ms, ctx, st)>>
      [] event = "Stop" ->
            IF format_stop_output(ms) = <<>> THEN <<>>
            ELSE <<[text |-> format_stop_output(ms)]>>
      [] event = "SubagentStop" ->
            IF format_subagent_stop_output(ms) = NoOutput THEN <<EmptyEnvelope>>
            ELSE <<format_subagent_stop_output(ms)>>

\* the writes to stdout for a non-empty match list
format_and_write(event, ms, ctx, st) ==
    CASE event = "UserPromptSubmit" -> <<format_user_prompt_output(ms, ctx, st)>>
      [] event = "Stop" ->
            IF format_stop_output(ms) = <<>> THEN <<>>
            ELSE <<[text |-> format_stop_output(ms)]>>
      [] event = "SubagentStop" ->
            IF format_subagent_stop_output(ms) = NoOutput THEN <<>>
            ELSE <<format_subagent_stop_output(ms)>>

\* Faulty variant of dispatch_output: the state actions run before formatting
dispatch_output_after_actions(event, ms, ctx, st) ==
    IF ms = <<>> THEN output_empty(event)
    ELSE format_and_write(event, ms, ctx, execute_actions(ms, ctx, st))

\* Faulty variant of dispatch_output: nothing is written when there is no content
dispatch_output_skip_empty(event, ms, ctx, st) ==
    IF ms = <<>> THEN output_empty(event)
    ELSE IF format_and_write(event, ms, ctx, st) = <<EmptyEnvelope>> THEN <<>>
    ELSE format_and_write(event, ms, ctx, st)

\* what dispatch writes once the matches are known
dispatch_output(event, ms, ctx, st) ==
    IF ms = <<>> THEN output_empty(event)
    ELSE format_and_write(event, ms, ctx, st)

----------------------------------------------------------------------------
(* Rules the model ranges over.  The focus rules are those of                  *)
(* tests/hooks/dispatch/test_focus_integration.py                              *)

FocusSetGroup ==
    [DefaultGroup EXCEPT !.tool_result = ToolResultTrigger({"TodoWrite", "Edit"}, EmptyDict),
                         !.files_changed = FilesChangedTrigger({SpecPathPattern}, {})]

FocusSet ==
    Rule("focus-set", "high", SetStateAction("focus", "captured.spec_id"),
         [Stop |-> TriggerSpec(DefaultGroup, <<FocusSetGroup>>)])

FocusClear ==
    Rule("focus-clear", "high", ClearStateAction("focus"),
         [Stop |-> TriggerSpec([DefaultGroup EXCEPT
                                   !.skill_invoked = SkillInvokedTrigger("spec-archive")],
                               <<>>)])

FocusInject ==
    Rule("focus-inject", "medium",
         InjectContextAction(<<"Current focus: ", "{state.focus}">>),
         [UserPromptSubmit |->
            TriggerSpec([DefaultGroup EXCEPT !.state_exists = StateExistsTrigger("focus")],
                        <<>>)])

\* focus-set with a reference to a capture the pattern does not have
FocusSetNoCapture ==
    Rule("focus-set-no-capture", "high", SetStateAction("focus", "captured.name"),
         [Stop |-> TriggerSpec(DefaultGroup, <<FocusSetGroup>>)])

\* a second SetState on the focus key, of lower priority and with another value
FocusSetArea ==
    Rule("focus-set-area", "medium", SetStateAction("focus", "captured.area"),
         [Stop |-> TriggerSpec([DefaultGroup EXCEPT
                                   !.files_changed =
                                       FilesChangedTrigger({AreaPathPattern}, {})],
                               <<>>)])

\* focus-set with a reference that is not of the form captured.<name>
FocusSetBadRef ==
    Rule("focus-set-bad-ref", "medium", SetStateAction("focus", "spec_id"),
         [Stop |-> TriggerSpec(DefaultGroup, <<FocusSetGroup>>)])

\* injects two placeholders, whether the keys are set or not
InjectStatus ==
    Rule("inject-status", "low",
         InjectContextAction(<<"Focus ", "{state.focus}", " of ", "{state.owner}">>),
         [UserPromptSubmit |->
            TriggerSpec([DefaultGroup EXCEPT !.patterns = [keywords |-> {"deploy"}]], <<>>)])

\* two text-pattern fields in one group
TwoFields ==
    Rule("two-fields", "medium", SuggestSkillAction("spec-review", "Spec mentioned"),
         [UserPromptSubmit |->
            TriggerSpec([DefaultGroup EXCEPT
                            !.patterns = [keywords |-> {"deploy", "spec"},
                                          intent_patterns |-> {"review.*spec"}]],
                        <<>>)])

\* clears the focus when the prompt asks to deploy
FocusDrop ==
    Rule("focus-drop", "high", ClearStateAction("focus"),
         [UserPromptSubmit |->
            TriggerSpec([DefaultGroup EXCEPT !.patterns = [keywords |-> {"deploy"}]], <<>>)])

\* a second, low-priority ClearState on the same key
FocusReset ==
    Rule("focus-reset", "low", ClearStateAction("focus"),
         [UserPromptSubmit |->
            TriggerSpec([DefaultGroup EXCEPT !.patterns = [keywords |-> {"app"}]], <<>>)])

SuggestDeploy ==
    Rule("suggest-deploy", "low", SuggestSkillAction("deploy", "Deployment requested"),
         [UserPromptSubmit |->
            TriggerSpec([DefaultGroup EXCEPT !.patterns = [keywords |-> {"deploy", "app"}]],
                        <<>>),
          Stop |->
            TriggerSpec([DefaultGroup EXCEPT
                            !.tool_result = ToolResultTrigger({"Read", "TodoWrite"}, EmptyDict)],
                        <<>>),
          SubagentStop |->
            TriggerSpec([DefaultGroup EXCEPT !.patterns = [agent_types |-> {"coder"}]], <<>>)])

\* a reminder whose trigger matches but which no formatter renders
RemindCommit ==
    Rule("remind-commit", "high", RemindAction("Commit your work"),
         [UserPromptSubmit |->
            TriggerSpec([DefaultGroup EXCEPT !.patterns = [keywords |-> {"app"}]], <<>>),
          Stop |->
            TriggerSpec([DefaultGroup EXCEPT
                            !.tool_result =
                                ToolResultTrigger({"Edit"},
                                                  [file_path |-> {"tasks\\.md$"}])],
                        <<>>),
          SubagentStop |->
            TriggerSpec([DefaultGroup EXCEPT !.patterns = [agent_types |-> {"coder"}]], <<>>)])

\* two groups: todo progress with TodoWrite, or a changed spec task file with a TODO
SuggestReview ==
    Rule("suggest-review", "high", SuggestSkillAction("review", ""),
         [UserPromptSubmit |->
            TriggerSpec(DefaultGroup,
                        << [DefaultGroup EXCEPT
                               !.patterns = [intent_patterns |-> {"review.*spec", "(unclosed"}]],
                           [DefaultGroup EXCEPT
                               !.patterns = [keywords |-> {"deploy"}],
                               !.state_exists = StateExistsTrigger("focus")] >>),
          Stop |->
            TriggerSpec(DefaultGroup,
                        << [DefaultGroup EXCEPT
                               !.todo_state = TodoStateTrigger(TRUE, FALSE),
                               !.tool_result = ToolResultTrigger({"TodoWrite"}, EmptyDict)],
                           [DefaultGroup EXCEPT
                               !.files_changed =
                                   FilesChangedTrigger({SpecPathPattern}, {"todo"})] >>),
          SubagentStop |->
            TriggerSpec([DefaultGroup EXCEPT
                            !.output_missing = OutputMissingTrigger({"tests_written"})],
                        <<>>)])

TddBlock ==
    Rule("tdd-block", "medium", BlockAction("TDD evidence missing"),
         [SubagentStop |->
            TriggerSpec([DefaultGroup EXCEPT
                            !.patterns = [agent_types |-> {"coder"}],
                            !.output_missing =
                                OutputMissingTrigger({"tdd_evidence", "tests_written"})],
                        <<>>)])

\* a second Block rule, of higher priority than TddBlock
CoderBlock ==
    Rule("coder-block", "high", BlockAction("Coder output needs review"),
         [SubagentStop |->
            TriggerSpec([DefaultGroup EXCEPT !.patterns = [agent_types |-> {"coder"}]], <<>>)])

\* lower-tier suggestions on Stop
SuggestTests ==
    Rule("suggest-tests", "medium", SuggestSkillAction("testing", "Tests first"),
         [Stop |->
            TriggerSpec([DefaultGroup EXCEPT
                            !.tool_result = ToolResultTrigger({"TodoWrite"}, EmptyDict)],
                        <<>>)])

SuggestDocs ==
    Rule("suggest-docs", "low", SuggestSkillAction("docs", ""),
         [Stop |->
            TriggerSpec([DefaultGroup EXCEPT
                            !.tool_result = ToolResultTrigger({"TodoWrite", "Edit"},
                                                              EmptyDict)],
                        <<>>)])

\* no active trigger anywhere: flat fields all empty, and an explicit empty group
Inert ==
    Rule("inert", "high", BlockAction("never"),
         [UserPromptSubmit |-> TriggerSpec(DefaultGroup, <<>>),
          Stop |-> TriggerSpec(DefaultGroup, <<DefaultGroup>>),
          SubagentStop |->
            TriggerSpec(DefaultGroup,
                        <<[DefaultGroup EXCEPT !.patterns = [keywords |-> {}]]>>)])

RECURSIVE RuleSetsUpTo(_, _)
\* the rule sets of at most n rules of pool, in every iteration order
RuleSetsUpTo(pool, n) ==
    IF n = 0 THEN {<<>>}
    ELSE LET shorter == RuleSetsUpTo(pool, n - 1)
         IN  shorter \cup UNION {{Append(rs, r) : r \in pool \ Range(rs)} :
                                 rs \in {x \in shorter : Len(x) = n - 1}}

----------------------------------------------------------------------------
(* Inputs of the passes of Spec *)

\* the rules of the state lifecycle
StateRules ==
    {FocusSet, FocusClear, FocusInject, FocusDrop, FocusReset, SuggestDeploy, TddBlock,
     FocusSetNoCapture, FocusSetBadRef}

StateRuleSets == RuleSetsUpTo(StateRules, MaxRules)

\* with or without a session_id entry
WithSession(ctx) == {ctx, Update(ctx, [session_id |-> "s1"])}

UserPromptContexts ==
    UNION {WithSession([hook_event |-> "UserPromptSubmit", prompt |-> p,
                        keywords |-> p, intent_patterns |-> p]) :
           p \in {"", "deploy the app"}}

StopContexts ==
    {[hook_event |-> "Stop", session_id |-> "s1", tool_results |-> t,
      changed_files |-> c, invoked_skills |-> k] :
        t \in {<<>>, <<[tool_name |-> "TodoWrite"]>>},
        c \in {<<>>, <<"specs/active/my-feature/tasks.md">>,
               <<"specs/active/other/tasks.md">>},
        k \in {{}, {"spec-archive"}}}
    \cup
    \* the same without a session_id, or with an empty one
    {[hook_event |-> "Stop", tool_results |-> <<[tool_name |-> "TodoWrite"]>>,
      changed_files |-> <<"specs/active/my-feature/tasks.md">>,
      invoked_skills |-> {"spec-archive"}],
     [hook_event |-> "Stop", session_id |-> "",
      tool_results |-> <<[tool_name |-> "TodoWrite"]>>,
      changed_files |-> <<"specs/active/my-feature/tasks.md">>,
      invoked_skills |-> {"spec-archive"}]}

SubagentStopContexts ==
    {[hook_event |-> "SubagentStop", session_id |-> "s1", agent_types |-> "coder",
      last_response |-> r] : r \in {"done", None}}

\* prepared contexts, as the tests hand them to analyze_hook and _execute_actions
Contexts(event) ==
    CASE event = "UserPromptSubmit" -> UserPromptContexts
      [] event = "Stop" -> StopContexts
      [] event = "SubagentStop" -> SubagentStopContexts

\* raw payloads of the host, each carrying the session_id the host sends
Payloads(event) ==
    {BadPayload} \cup
    CASE event = "UserPromptSubmit" ->
            {[session_id |-> "s1", prompt |-> p] : p \in {"", "deploy the app"}}
      [] event = "Stop" ->
            {[session_id |-> "s1", tool_results |-> t] :
                t \in {<<>>,
                       <<[tool_name |-> "TodoWrite",
                          file_path |-> "specs/active/my-feature/tasks.md",
                          parameters |-> [todos |-> <<[status |-> "completed"]>>]]>>,
                       <<[tool_name |-> "Skill",
                          parameters |-> [skill |-> "spec-archive"]]>>}}
      [] event = "SubagentStop" ->
            {[session_id |-> "s1", agent_type |-> "coder", last_response |-> r] :
                r \in {"done", None}}

RulesFiles ==
    {RulesFileMissing, RulesFileInvalidJson, RulesFileNotObject}
    \cup {RulesFile(rs) : rs \in StateRuleSets}

----------------------------------------------------------------------------
(* The passes.  A pass is one run of dispatch's body: analyze_hook, the      *)
(* event's formatter and the write to stdout, the flush, then the loop of    *)
(* _execute_actions, one step per match.  dispatch(event, data) builds the   *)
(* context with extract_context and handles every exception itself; a pass   *)
(* over a prepared context is the same sequence called by a client, which    *)
(* receives the exceptions.                                                  *)

EmptyStore == [p \in StatePaths |-> None]

Init ==
    /\ store = EmptyStore
    /\ pc = "idle"
    /\ via = ""
    /\ hook_event = ""
    /\ context = EmptyDict
    /\ rules = <<>>
    /\ matches = <<>>
    /\ out = <<>>
    /\ idx = 0
    /\ store0 = EmptyStore
    /\ writes = 0
    /\ raised = ""
    /\ procs = <<>>

\* Faulty variant of Analyze: a StateExists match consumes the key it found
AnalyzeConsuming(event, ctx, rule_set) ==
    /\ hook_event' = event
    /\ context' = ctx
    /\ rules' = rule_set
    /\ matches' = analyze_hook(event, ctx, rule_set, store)
    /\ out' = dispatch_output(event, matches', ctx, store)
    /\ pc' = IF matches' = <<>> THEN "done" ELSE "exec"
    /\ idx' = 1
    /\ store0' = store
    /\ writes' = 0
    /\ raised' = ""
    /\ store' = IF \E k \in DOMAIN matches' : matches'[k].action.type = "inject_context"
                THEN [p \in StatePaths |-> None]
                ELSE store
    /\ UNCHANGED procs

\* dispatch lines 168-189: match, write the output, flush
Analyze(event, ctx, rule_set) ==
    /\ hook_event' = event
    /\ context' = ctx
    /\ rules' = rule_set
    /\ matches' = analyze_hook(event, ctx, rule_set, store)
    /\ out' = dispatch_output(event, matches', ctx, store)
    /\ pc' = IF matches' = <<>> THEN "done" ELSE "exec"
    /\ idx' = 1
    /\ store0' = store
    /\ writes' = 0
    /\ raised' = ""
    /\ UNCHANGED <<store, procs>>

\* dispatch(hook_event, data), up to the flush
BeginDispatch(event, data, rules_file) ==
    /\ pc = "idle"
    /\ via' = "dispatch"
    /\ IF extract_context_raises(event, data) \/ load_rules_raises(rules_file)
       THEN /\ hook_event' = event
            /\ context' = EmptyDict
            /\ rules' = <<>>
            /\ matches' = <<>>
            /\ out' = output_empty(event)
            /\ pc' = "done"
            /\ idx' = 1
            /\ store0' = store
            /\ writes' = 0
            /\ raised' = IF extract_context_raises(event, data)
                         THEN "extract_context" ELSE "load_rules"
            /\ UNCHANGED <<store, procs>>
       ELSE Analyze(event, extract_context(event, data), load_rules(rules_file))

\* the same steps over a prepared context and rule set
BeginContext(event, ctx, rule_set) ==
    /\ pc = "idle"
    /\ via' = "context"
    /\ Analyze(event, ctx, rule_set)

\* Faulty variant of ExecNoSession: the actions run under a default session
ExecNoSessionDefault ==
    /\ pc = "exec"
    /\ Get(context, "session_id", "") = ""
    /\ pc' = "done"
    /\ store' = ExecuteFrom(store, "s1", matches, 1)
    /\ UNCHANGED <<procs, via, hook_event, context, rules, matches, out, idx,
                   store0, writes, raised>>

\* _execute_actions returns at once without a session_id
ExecNoSession ==
    /\ pc = "exec"
    /\ Get(context, "session_id", "") = ""
    /\ pc' = "done"
    /\ UNCHANGED <<procs, store, via, hook_event, context, rules, matches, out, idx,
                   store0, writes, raised>>

\* Faulty variant of RaiseFromExecute: every caller has the failure swallowed
RaiseFromExecuteSwallowed ==
    /\ raised' = "execute_actions"
    /\ pc' = "done"
    /\ out' = out \o output_empty(hook_event)
    /\ UNCHANGED <<procs, store, via, hook_event, context, rules, matches, idx, store0, writes>>

\* the exception of a failed store write leaves _execute_actions: dispatch
\* catches it and writes the empty response, another caller receives it
RaiseFromExecute ==
    /\ raised' = "execute_actions"
    /\ IF via = "dispatch"
       THEN pc' = "done" /\ out' = out \o output_empty(hook_event)
       ELSE pc' = "raised" /\ out' = out
    /\ UNCHANGED <<procs, store, via, hook_event, context, rules, matches, idx, store0, writes>>

\* Faulty variant of ExecSetState: the existence check looks at the store as it
\* was when the pass began
ExecSetStateStale(fs_ok) ==
    /\ pc = "exec"
    /\ Get(context, "session_id", "") # ""
    /\ idx <= Len(matches)
    /\ matches[idx].action.type = "set_state"
    /\ LET session_id == context.session_id
           m == matches[idx]
       IN  IF SetStateOutcome(store0, session_id, m.action, m.captures) = "set"
              /\ set_raises(fs_ok)
           THEN RaiseFromExecute
           ELSE /\ store' = IF SetStateOutcome(store0, session_id, m.action, m.captures)
                                 = "set"
                            THEN state_set(store, session_id, m.action.key,
                                           extract_value(m.action.value_from, m.captures))
                            ELSE store
                /\ writes' = IF store' # store THEN writes + 1 ELSE writes
                /\ idx' = idx + 1
                /\ UNCHANGED <<procs, pc, via, hook_event, context, rules, matches, out,
                               store0, raised>>

\* the loop body for a SetState match; fs_ok is whether the file write succeeds
ExecSetState(fs_ok) ==
    /\ pc = "exec"
    /\ Get(context, "session_id", "") # ""
    /\ idx <= Len(matches)
    /\ matches[idx].action.type = "set_state"
    /\ LET session_id == context.session_id
           m == matches[idx]
       IN  IF SetStateOutcome(store, session_id, m.action, m.captures) = "set"
              /\ set_raises(fs_ok)
           THEN RaiseFromExecute
           ELSE /\ store' = execute_action(store, session_id, m)
                /\ writes' = IF store' # store THEN writes + 1 ELSE writes
                /\ idx' = idx + 1
                /\ UNCHANGED <<procs, pc, via, hook_event, context, rules, matches, out,
                               store0, raised>>

\* the loop body for a ClearState match; unlink fails only on an existing file
ExecClearState(fs_ok) ==
    /\ pc = "exec"
    /\ Get(context, "session_id", "") # ""
    /\ idx <= Len(matches)
    /\ matches[idx].action.type = "clear_state"
    /\ LET session_id == context.session_id
           m == matches[idx]
       IN  IF clear_raises(store, session_id, m.action.key, fs_ok)
           THEN RaiseFromExecute
           ELSE /\ store' = execute_action(store, session_id, m)
                /\ writes' = IF store' # store THEN writes + 1 ELSE writes
                /\ idx' = idx + 1
                /\ UNCHANGED <<procs, pc, via, hook_event, context, rules, matches, out,
                               store0, raised>>

\* the loop body for any other action: no case of the match statement applies
ExecOther ==
    /\ pc = "exec"
    /\ Get(context, "session_id", "") # ""
    /\ idx <= Len(matches)
    /\ matches[idx].action.type \notin {"set_state", "clear_state"}
    /\ idx' = idx + 1
    /\ UNCHANGED <<procs, store, pc, via, hook_event, context, rules, matches, out,
                   store0, writes, raised>>

\* the loop is exhausted and dispatch returns
ExecFinish ==
    /\ pc = "exec"
    /\ Get(context, "session_id", "") # ""
    /\ idx > Len(matches)
    /\ pc' = "done"
    /\ UNCHANGED <<procs, store, via, hook_event, context, rules, matches, out, idx,
                   store0, writes, raised>>

\* the process exits; the store is all that outlives the pass
EndPass ==
    /\ pc \in {"done", "raised"}
    /\ pc' = "idle"
    /\ via' = ""
    /\ hook_event' = ""
    /\ context' = EmptyDict
    /\ rules' = <<>>
    /\ matches' = <<>>
    /\ out' = <<>>
    /\ idx' = 0
    /\ store0' = store
    /\ writes' = 0
    /\ raised' = ""
    /\ UNCHANGED <<store, procs>>

Next ==
    \/ \E event \in HookEvents : \E data \in Payloads(event), rules_file \in RulesFiles :
          BeginDispatch(event, data, rules_file)
    \/ \E event \in HookEvents : \E ctx \in Contexts(event), rule_set \in StateRuleSets :
          BeginContext(event, ctx, rule_set)
    \/ ExecNoSession
    \/ \E fs_ok \in BOOLEAN : ExecSetState(fs_ok)
    \/ \E fs_ok \in BOOLEAN : ExecClearState(fs_ok)
    \/ ExecOther
    \/ ExecFinish
    \/ EndPass

Spec == Init /\ [][Next]_vars

----------------------------------------------------------------------------
(* Stop passes over prepared contexts whose rule sets hold several state      *)
(* actions on the focus key, in every order                                   *)

OrderRules == {FocusSet, FocusSetArea, FocusClear, SuggestDeploy}

OrderRuleSets == RuleSetsUpTo(OrderRules, MaxRules)

OrderNext ==
    \/ \E ctx \in StopContexts, rule_set \in OrderRuleSets :
          BeginContext("Stop", ctx, rule_set)
    \/ ExecNoSession
    \/ \E fs_ok \in BOOLEAN : ExecSetState(fs_ok)
    \/ \E fs_ok \in BOOLEAN : ExecClearState(fs_ok)
    \/ ExecOther
    \/ ExecFinish
    \/ EndPass

OrderSpec == Init /\ [][OrderNext]_vars

----------------------------------------------------------------------------
(* Matching and formatting alone: analyze_hook and the event's formatter    *)
(* applied once to an event, a context, a rule set and a store drawn from   *)
(* the sets below                                                            *)

\* the rules with a TriggerSpec for the event, and one rule without
MatchRules(event) ==
    CASE event = "UserPromptSubmit" ->
            {FocusInject, FocusDrop, SuggestDeploy, RemindCommit, SuggestReview, Inert,
             InjectStatus, FocusSet, TwoFields}
      [] event = "Stop" ->
            {FocusSet, SuggestDeploy, RemindCommit, SuggestReview, SuggestTests,
             SuggestDocs, Inert, FocusInject}
      [] event = "SubagentStop" ->
            {SuggestDeploy, SuggestReview, TddBlock, CoderBlock, Inert, RemindCommit,
             FocusInject}

MatchRuleSets(event) == RuleSetsUpTo(MatchRules(event), MaxMatchRules)

TodoWriteResult == [tool_name |-> "TodoWrite"]

MatchUserPromptContexts ==
    {[hook_event |-> "UserPromptSubmit", prompt |-> p, keywords |-> p,
      intent_patterns |-> p] : p \in {"", "deploy the app", "Review my spec"}}
    \cup {[hook_event |-> "UserPromptSubmit", session_id |-> "s1",
           prompt |-> "deploy the app", keywords |-> "deploy the app",
           intent_patterns |-> "deploy the app"]}

MatchStopContexts ==
    {[hook_event |-> "Stop", session_id |-> "s1", tool_results |-> t,
      changed_files |-> c, todo_state |-> [any_completed |-> d, all_completed |-> FALSE]] :
        t \in {<<>>, <<TodoWriteResult>>,
               <<[tool_name |-> "Edit", parameters |-> NoneParams]>>,
               <<[tool_name |-> "Edit",
                  parameters |-> [file_path |-> "specs/active/other/tasks.md"]],
                 TodoWriteResult>>,
               <<[tool_name |-> "Edit", parameters |-> [file_path |-> "README.md"]]>>,
               <<[tool_name |-> "Edit", parameters |-> [file_path |-> "README.md"]],
                 [tool_name |-> "Write",
                  parameters |-> [file_path |-> "specs/active/other/tasks.md"]]>>},
        c \in {<<>>, <<"specs/active/my-feature/tasks.md">>, <<"README.md">>},
        d \in BOOLEAN}

MatchSubagentStopContexts ==
    {[hook_event |-> "SubagentStop", agent_types |-> a, agent_type |-> a,
      last_response |-> r] :
        a \in {"Coder", ""},
        r \in {"done", "tdd_evidence: pass", "tdd_evidence tests_written", None}}
    \cup {[hook_event |-> "SubagentStop", agent_types |-> "Coder", agent_type |-> "Coder"]}

MatchContexts(event) ==
    {EmptyDict} \cup
    CASE event = "UserPromptSubmit" -> MatchUserPromptContexts
      [] event = "Stop" -> MatchStopContexts
      [] event = "SubagentStop" -> MatchSubagentStopContexts

\* the stores that make a difference to the context: none without a session
MatchStores(ctx) ==
    IF Get(ctx, "session_id", "") = "" \/ ctx.hook_event # "UserPromptSubmit"
    THEN {EmptyStore}
    ELSE {EmptyStore, [EmptyStore EXCEPT ![<<"s1", "focus">>] = "my-feature"]}

InitMatch ==
    /\ hook_event \in HookEvents
    /\ context \in MatchContexts(hook_event)
    /\ rules \in MatchRuleSets(hook_event)
    /\ store \in MatchStores(context)
    /\ store0 = store
    /\ pc = "idle"
    /\ via = "analyze"
    /\ matches = <<>>
    /\ out = <<>>
    /\ idx = 0
    /\ writes = 0
    /\ raised = ""
    /\ procs = <<>>

\* analyze_hook and the formatter, on the inputs drawn
AnalyzeOnce ==
    /\ pc = "idle"
    /\ via = "analyze"
    /\ UNCHANGED via
    /\ Analyze(hook_event, context, rules)

MatchNext == AnalyzeOnce

MatchSpec == InitMatch /\ [][MatchNext]_vars

----------------------------------------------------------------------------
(* The sub-triggers alone: analyze_hook on a Stop context, over rules that   *)
(* each configure one sub-trigger in one of its corner cases                 *)

\* path pattern and content pattern together
ContentGate ==
    Rule("content-gate", "high", SuggestSkillAction("content", ""),
         [Stop |-> TriggerSpec([DefaultGroup EXCEPT
                                   !.files_changed =
                                       FilesChangedTrigger({SpecPathPattern}, {"done"})],
                               <<>>)])

\* a glob, a regex with a named group and a regex that only a glob would match
GlobDocs ==
    Rule("glob-docs", "medium", SuggestSkillAction("docs", "Markdown changed"),
         [Stop |-> TriggerSpec([DefaultGroup EXCEPT
                                   !.files_changed =
                                       FilesChangedTrigger({"*.md", SpecPathPattern,
                                                            GlobOnlyPattern}, {})],
                               <<>>)])

\* content patterns without path patterns, alone and next to a tool trigger
ContentOnly ==
    Rule("content-only", "low", SuggestSkillAction("todo", ""),
         [Stop |->
            TriggerSpec(DefaultGroup,
                        << [DefaultGroup EXCEPT
                               !.files_changed = FilesChangedTrigger({}, {"todo", "done"})],
                           [DefaultGroup EXCEPT
                               !.tool_result = ToolResultTrigger({"TodoWrite"}, EmptyDict),
                               !.files_changed = FilesChangedTrigger({}, {"todo"})] >>)])

\* both flags of the todo state requested
TodoBoth ==
    Rule("todo-both", "medium", SuggestSkillAction("wrap-up", "Todos progressed"),
         [Stop |-> TriggerSpec([DefaultGroup EXCEPT
                                   !.todo_state = TodoStateTrigger(TRUE, TRUE)],
                               <<>>)])

\* flat fields that would match, next to an explicit group that does not
Shadowed ==
    Rule("shadowed", "high", SuggestSkillAction("archive", ""),
         [Stop |->
            TriggerSpec([DefaultGroup EXCEPT
                            !.tool_result = ToolResultTrigger({"TodoWrite"}, EmptyDict)],
                        << [DefaultGroup EXCEPT
                               !.skill_invoked = SkillInvokedTrigger("spec-archive")] >>)])

\* a trigger spec with every flat field at its default and no groups
NoTrigger ==
    Rule("no-trigger", "high", SuggestSkillAction("never", ""),
         [Stop |-> TriggerSpec(DefaultGroup, <<>>)])

TriggerRules ==
    {ContentGate, GlobDocs, ContentOnly, TodoBoth, Shadowed, NoTrigger, SuggestReview}

TriggerRuleSets == RuleSetsUpTo(TriggerRules, MaxRules)

TriggerContexts ==
    {[hook_event |-> "Stop", session_id |-> "s1", tool_results |-> <<TodoWriteResult>>,
      changed_files |-> c, todo_state |-> [any_completed |-> a, all_completed |-> b]] :
        c \in {<<>>, <<"specs/active/my-feature/tasks.md">>,
               <<"specs/active/other/tasks.md">>,
               <<"specs/active/other/tasks.md", "README.md">>, <<"README.md">>},
        a \in BOOLEAN, b \in BOOLEAN}

InitSubTrigger ==
    /\ hook_event = "Stop"
    /\ context \in TriggerContexts
    /\ rules \in TriggerRuleSets
    /\ store = EmptyStore
    /\ store0 = store
    /\ pc = "idle"
    /\ via = "analyze"
    /\ matches = <<>>
    /\ out = <<>>
    /\ idx = 0
    /\ writes = 0
    /\ raised = ""
    /\ procs = <<>>

SubTriggerSpec == InitSubTrigger /\ [][MatchNext]_vars

----------------------------------------------------------------------------
(* Two dispatch processes of one session at once.  Each runs the pass over a   *)
(* context carrying the session_id; the store is the only thing they share.    *)
(* state.exists and state.set are separate file system calls with no lock      *)
(* around them, so another process can run between the two.                    *)

Procs == {1, 2}

\* the state rules of the session
ConcRuleSets == RuleSetsUpTo({FocusSet, FocusClear}, MaxRules)

\* the Stop contexts of the session
ConcContexts == {ctx \in StopContexts : Get(ctx, "session_id", "") = "s1"}

\* a process that is not running
IdleProc ==
    [pc |-> "idle", context |-> EmptyDict, matches |-> <<>>, idx |-> 0,
     wrote |-> None, overlapped |-> FALSE]

\* a process that has matched and written its output; overlapped records
\* whether another process was running at any time during the pass
StartedProc(ctx, ms, others_running) ==
    [pc |-> IF ms = <<>> THEN "done" ELSE "exec", context |-> ctx, matches |-> ms,
     idx |-> 1, wrote |-> None, overlapped |-> others_running]

ConcInit ==
    /\ store = EmptyStore
    /\ procs = [p \in Procs |-> IdleProc]
    /\ pc = "idle"
    /\ via = "concurrent"
    /\ hook_event = ""
    /\ context = EmptyDict
    /\ rules = <<>>
    /\ matches = <<>>
    /\ out = <<>>
    /\ idx = 0
    /\ store0 = EmptyStore
    /\ writes = 0
    /\ raised = ""

\* process p starts: analyze_hook, the output, the flush
ProcBegin(p, ctx, rule_set) ==
    /\ procs[p].pc = "idle"
    /\ procs' = [q \in Procs |->
                    IF q = p
                    THEN StartedProc(ctx, analyze_hook("Stop", ctx, rule_set, store),
                                     \E r \in Procs \ {p} : procs[r].pc # "idle")
                    ELSE IF procs[q].pc # "idle"
                    THEN [procs[q] EXCEPT !.overlapped = TRUE]
                    ELSE procs[q]]
    /\ UNCHANGED <<store, pc, via, hook_event, context, rules, matches, out, idx,
                   store0, writes, raised>>

\* the match process p is at
ProcMatch(p) == procs[p].matches[procs[p].idx]

\* Faulty variant of ProcCheck: the write is attempted whether the key exists or not
ProcCheckUnguarded(p) ==
    /\ procs[p].pc = "exec"
    /\ procs[p].idx <= Len(procs[p].matches)
    /\ ProcMatch(p).action.type = "set_state"
    /\ procs' = [procs EXCEPT ![p] =
                    IF extract_value(ProcMatch(p).action.value_from,
                                     ProcMatch(p).captures) # None
                    THEN [@ EXCEPT !.pc = "write"]
                    ELSE [@ EXCEPT !.idx = @ + 1]]
    /\ UNCHANGED <<store, pc, via, hook_event, context, rules, matches, out, idx,
                   store0, writes, raised>>

\* the SetState case up to the write: state.exists, then _extract_value
ProcCheck(p) ==
    /\ procs[p].pc = "exec"
    /\ procs[p].idx <= Len(procs[p].matches)
    /\ ProcMatch(p).action.type = "set_state"
    /\ procs' = [procs EXCEPT ![p] =
                    IF SetStateOutcome(store, procs[p].context.session_id,
                                       ProcMatch(p).action, ProcMatch(p).captures) = "set"
                    THEN [@ EXCEPT !.pc = "write"]
                    ELSE [@ EXCEPT !.idx = @ + 1]]
    /\ UNCHANGED <<store, pc, via, hook_event, context, rules, matches, out, idx,
                   store0, writes, raised>>

\* state.set of the SetState case: write_text replaces whatever the file holds
ProcWrite(p, fs_ok) ==
    /\ procs[p].pc = "write"
    /\ IF set_raises(fs_ok)
       THEN /\ procs' = [procs EXCEPT ![p].pc = "raised"]
            /\ UNCHANGED store
       ELSE /\ store' = state_set(store, procs[p].context.session_id,
                                  ProcMatch(p).action.key,
                                  extract_value(ProcMatch(p).action.value_from,
                                                ProcMatch(p).captures))
            /\ procs' = [procs EXCEPT ![p].pc = "exec", ![p].idx = @ + 1,
                                      ![p].wrote = extract_value(
                                                      ProcMatch(p).action.value_from,
                                                      ProcMatch(p).captures)]
    /\ UNCHANGED <<pc, via, hook_event, context, rules, matches, out, idx,
                   store0, writes, raised>>

\* the ClearState case
ProcClear(p, fs_ok) ==
    /\ procs[p].pc = "exec"
    /\ procs[p].idx <= Len(procs[p].matches)
    /\ ProcMatch(p).action.type = "clear_state"
    /\ IF clear_raises(store, procs[p].context.session_id, ProcMatch(p).action.key, fs_ok)
       THEN /\ procs' = [procs EXCEPT ![p].pc = "raised"]
            /\ UNCHANGED store
       ELSE /\ store' = state_clear(store, procs[p].context.session_id,
                                    ProcMatch(p).action.key)
            /\ procs' = [procs EXCEPT ![p].idx = @ + 1]
    /\ UNCHANGED <<pc, via, hook_event, context, rules, matches, out, idx,
                   store0, writes, raised>>

\* the loop of process p is exhausted
ProcFinish(p) ==
    /\ procs[p].pc = "exec"
    /\ procs[p].idx > Len(procs[p].matches)
    /\ procs' = [procs EXCEPT ![p].pc = "done"]
    /\ UNCHANGED <<store, pc, via, hook_event, context, rules, matches, out, idx,
                   store0, writes, raised>>

\* process p exits
ProcEnd(p) ==
    /\ procs[p].pc \in {"done", "raised"}
    /\ procs' = [procs EXCEPT ![p] = IdleProc]
    /\ UNCHANGED <<store, pc, via, hook_event, context, rules, matches, out, idx,
                   store0, writes, raised>>

ConcNext ==
    \/ \E p \in Procs : \E ctx \in ConcContexts, rule_set \in ConcRuleSets :
          ProcBegin(p, ctx, rule_set)
    \/ \E p \in Procs : ProcCheck(p)
    \/ \E p \in Procs : \E fs_ok \in BOOLEAN : ProcWrite(p, fs_ok)
    \/ \E p \in Procs : \E fs_ok \in BOOLEAN : ProcClear(p, fs_ok)
    \/ \E p \in Procs : ProcFinish(p)
    \/ \E p \in Procs : ProcEnd(p)

ConcSpec == ConcInit /\ [][ConcNext]_vars

----------------------------------------------------------------------------
(* Properties *)

Focus == <<"s1", "focus">>

HasSession == Get(context, "session_id", "") # ""

InPass == pc \in {"exec", "done", "raised"}

Min(S) == CHOOSE x \in S : \A y \in S : x <= y

Max(S) == CHOOSE x \in S : \A y \in S : y <= x

\* a group matches iff it has an active member and each active member has evidence
GroupMatchesAll(g) ==
    ~GroupRaises(g, context) =>
        (~match_trigger_group(g, context, store).is_none
            <=> /\ \E i \in DOMAIN Members : MemberActive(g, Members[i])
                /\ \A i \in DOMAIN Members :
                      MemberActive(g, Members[i])
                          => MemberMatches(g, Members[i], context, store) # {})

\* C1: match_trigger_group returns a result iff the group has at least one active
\* member and every active member individually matches the context; a group with
\* no active member returns None.  Checked for every group of every rule handed
\* to analyze_hook, against every context.
C1_GroupAndSemantics ==
    \A i \in DOMAIN rules : \A e \in DOMAIN rules[i].triggers :
        \A j \in DOMAIN rules[i].triggers[e].groups :
            GroupMatchesAll(rules[i].triggers[e].groups[j])

\* a group of two active members (tool_result, files_changed) that both match
C1_Witness ==
    /\ pc # "idle"
    /\ hook_event = "Stop"
    /\ \E i \in DOMAIN rules : rules[i] = FocusSet
    /\ Cardinality(ActiveMembers(FocusSetGroup)) = 2
    /\ ~match_trigger_group(FocusSetGroup, context, store).is_none

\* indices of the groups whose match_trigger_group result is not None
MatchingGroups(groups) ==
    {j \in DOMAIN groups : ~match_trigger_group(groups[j], context, store).is_none}

\* the Match of a rule is built from its first matching group, and only from it
RuleMatchesFirstGroup(rule) ==
    LET groups == RuleGroups(rule, hook_event)
        res == match_rule(rule, hook_event, context, store)
    IN  /\ hook_event \notin DOMAIN rule.triggers => res.status = "none"
        /\ groups = <<>> => res.status = "none"
        /\ (\A j \in DOMAIN groups : ~GroupRaises(groups[j], context)) =>
              IF MatchingGroups(groups) = {} THEN res.status = "none"
              ELSE /\ res.status = "match"
                   /\ res.match =
                        [rule_name |-> rule.name,
                         priority |-> rule.priority,
                         action |-> rule.action,
                         matched_patterns |->
                            match_trigger_group(groups[Min(MatchingGroups(groups))],
                                                context, store).matched_patterns,
                         captures |->
                            match_trigger_group(groups[Min(MatchingGroups(groups))],
                                                context, store).captures]

\* C2: _match_rule returns the Match built from the first group, in declared
\* order, whose result is not None; later groups contribute neither evidence nor
\* captures; a spec without groups, or no TriggerSpec for the event, yields no Match.
C2_FirstMatchingGroup ==
    \A i \in DOMAIN rules : RuleMatchesFirstGroup(rules[i])

\* both groups of suggest-review match on Stop; the Match carries the first
\* group's evidence and none of the second group's captures
C2_Witness ==
    /\ pc # "idle"
    /\ hook_event = "Stop"
    /\ \E i \in DOMAIN rules : rules[i] = SuggestReview
    /\ MatchingGroups(RuleGroups(SuggestReview, "Stop")) = {1, 2}
    /\ match_trigger_group(RuleGroups(SuggestReview, "Stop")[2], context, store).captures
          # EmptyDict
    /\ \E k \in DOMAIN matches :
          /\ matches[k].rule_name = "suggest-review"
          /\ matches[k].captures = EmptyDict
          /\ matches[k].matched_patterns = {"TodoWrite", "any_completed"}

\* position of the rule of that name in the rule set's iteration order
RuleIndex(name) == CHOOSE i \in DOMAIN rules : rules[i].name = name

ExampleMatch(name, priority) ==
    [rule_name |-> name, priority |-> priority, action |-> RemindAction(""),
     matched_patterns |-> {}, captures |-> EmptyDict]

\* C6: analyze_hook returns the matches of the matching rules ordered high, medium,
\* low, and matches of equal priority keep the iteration order of the rule set;
\* priorities [low, high, medium, high] come out as [high, high, medium, low]
\* with the two highs in their original order.
C6_PrioritySortStable ==
    /\ pc # "idle" =>
          /\ {matches[k].rule_name : k \in DOMAIN matches}
                = {rules[i].name : i \in {j \in DOMAIN rules :
                      /\ DOMAIN context # {}
                      /\ match_rule(rules[j], hook_event, context, store0).status = "match"}}
          /\ Len(matches) = Cardinality({matches[k].rule_name : k \in DOMAIN matches})
          /\ \A k, l \in DOMAIN matches : k < l =>
                /\ PRIORITY_ORDER(matches[k].priority) <= PRIORITY_ORDER(matches[l].priority)
                /\ matches[k].priority = matches[l].priority
                      => RuleIndex(matches[k].rule_name) < RuleIndex(matches[l].rule_name)
    /\ SortByPriority(<<ExampleMatch("a", "low"), ExampleMatch("b", "high"),
                        ExampleMatch("c", "medium"), ExampleMatch("d", "high")>>)
          = <<ExampleMatch("b", "high"), ExampleMatch("d", "high"),
              ExampleMatch("c", "medium"), ExampleMatch("a", "low")>>

\* three rules match, the low one first in the rule set and last in the result
C6_Witness ==
    /\ pc # "idle"
    /\ Len(matches) = 3
    /\ rules[1].priority = "low"
    /\ matches[1].priority = "high"
    /\ matches[2].priority = "high"
    /\ matches[3].priority = "low"
    /\ RuleIndex(matches[1].rule_name) = 2

BlockIndices == {k \in DOMAIN matches : matches[k].action.type = "block"}

\* C7: on SubagentStop, when the matches contain a Block, the output is exactly
\* {decision: "block", reason: reason of the first Block in sorted order},
\* whatever SuggestSkill or other matches there are.
C7_BlockTakesPrecedence ==
    (pc # "idle" /\ hook_event = "SubagentStop" /\ BlockIndices # {}) =>
        out = <<[json |-> "decision", decision |-> "block",
                 reason |-> matches[Min(BlockIndices)].action.reason]>>

\* a SuggestSkill match sorted ahead of two Block matches
C7_Witness ==
    /\ pc # "idle"
    /\ hook_event = "SubagentStop"
    /\ Cardinality(BlockIndices) = 2
    /\ matches[1].action.type = "suggest_skill"
    /\ out = <<[json |-> "decision", decision |-> "block",
                reason |-> "Coder output needs review"]>>

RemoveAt(seq, i) == SubSeq(seq, 1, i - 1) \o SubSeq(seq, i + 1, Len(seq))

\* the rules of the rule set whose evaluation raises
RaisingRules ==
    {i \in DOMAIN rules : match_rule(rules[i], hook_event, context, store0).status = "raise"}

\* C10: when the evaluation of a rule raises, analyze_hook does not raise and
\* returns the same matches in the same order as for the rule set without that rule.
C10_FailureIsolation ==
    pc # "idle" =>
        /\ raised = ""
        /\ \A i \in RaisingRules :
              matches = analyze_hook(hook_event, context, RemoveAt(rules, i), store0)

\* a raising rule between two rules that match
C10_Witness ==
    /\ pc # "idle"
    /\ Len(rules) = 3
    /\ RaisingRules = {2}
    /\ Len(matches) = 2

\* the match the loop of _execute_actions is about to execute
AtMatch(type) ==
    /\ pc = "exec"
    /\ HasSession
    /\ idx \in DOMAIN matches
    /\ matches[idx].action.type = type

\* C3: SetState never overwrites.  Executing a SetState match on a key that
\* exists leaves the store unchanged, and the value of a set key changes only
\* by a ClearState on that key, which unsets it: no later match, whatever its
\* capture, replaces the value before a ClearState has run.
C3_SetStateNeverOverwrites ==
    [][/\ (AtMatch("set_state")
             /\ state_exists(store, context.session_id, matches[idx].action.key))
          => store' = store
       /\ \A p \in StatePaths :
             (store[p] # None /\ store'[p] # store[p])
                => (AtMatch("clear_state")
                      /\ p = <<context.session_id, matches[idx].action.key>>
                      /\ store'[p] = None)]_vars

\* a SetState match with another capture has just been executed on a set key
C3_Witness ==
    /\ pc = "exec"
    /\ idx > 1
    /\ matches[idx - 1].action.type = "set_state"
    /\ store0[Focus] = "my-feature"
    /\ store[Focus] = "my-feature"
    /\ Get(matches[idx - 1].captures, "spec_id", None) = "other"

\* C5: ClearState is idempotent.  Executing it on an unset key does not raise and
\* leaves the store as it is, so clearing again gives the store of a single clear.
C5_ClearIdempotent ==
    /\ [](\A p \in StatePaths :
             /\ state_get(state_clear(store, p[1], p[2]), p[1], p[2]) = None
             /\ state_clear(state_clear(store, p[1], p[2]), p[1], p[2])
                   = state_clear(store, p[1], p[2]))
    /\ [][(AtMatch("clear_state")
             /\ ~state_exists(store, context.session_id, matches[idx].action.key))
          => (store' = store /\ pc' = "exec" /\ raised' = "" /\ idx' = idx + 1)]_vars

\* two ClearState matches on the key executed in a row, the second on the unset key
C5_Witness ==
    /\ pc = "exec"
    /\ idx > 2
    /\ matches[idx - 1].action.type = "clear_state"
    /\ matches[idx - 2].action.type = "clear_state"
    /\ store0[Focus] # None
    /\ store[Focus] = None
    /\ raised = ""

OutputOf(st) ==
    IF raised \in {"extract_context", "load_rules"} THEN output_empty(hook_event)
    ELSE IF analyze_hook(hook_event, context, rules, st) = <<>> THEN output_empty(hook_event)
    ELSE format_and_write(hook_event, analyze_hook(hook_event, context, rules, st),
                          context, st)

\* C9: within a pass every store write comes after the output has been written,
\* and the output, StateExists evaluation and {state.KEY} interpolation included,
\* is the one computed from the store as it was when the pass began.
C9_WritesAfterOutput ==
    /\ []((InPass /\ raised # "execute_actions") =>
             /\ matches = analyze_hook(hook_event, context, rules, store0)
             /\ out = OutputOf(store0))
    /\ [][store' # store =>
             (pc = "exec" /\ out = OutputOf(store0) /\ out' = out /\ store0' = store0)]_vars

\* the pass injected the focus it began with and then cleared it
C9_Witness ==
    /\ pc = "done"
    /\ hook_event = "UserPromptSubmit"
    /\ store0[Focus] = "my-feature"
    /\ store[Focus] = None
    /\ Len(out) = 1
    /\ out[1].json = "hookSpecificOutput"
    /\ \E k \in DOMAIN out[1].additionalContext :
          out[1].additionalContext[k] = <<<<"Current focus: ", "my-feature">>>>

\* the SetState matches of the pass on the focus key whose capture resolves
SetIndices ==
    {k \in DOMAIN matches :
        /\ matches[k].action.type = "set_state"
        /\ matches[k].action.key = "focus"
        /\ extract_value(matches[k].action.value_from, matches[k].captures) # None}

\* the ClearState matches of the pass on the focus key
ClearIndices ==
    {k \in DOMAIN matches :
        matches[k].action.type = "clear_state" /\ matches[k].action.key = "focus"}

CapturedValue(k) == extract_value(matches[k].action.value_from, matches[k].captures)

\* the output of the pass carries the injected focus line with value v
OutputContains(v) ==
    /\ Len(out) = 1
    /\ out[1].json = "hookSpecificOutput"
    /\ \E k \in DOMAIN out[1].additionalContext :
          out[1].additionalContext[k] = <<<<"Current focus: ", v>>>>

\* a pass that began with the key set injects its value
InjectsWhileSet ==
    (InPass /\ hook_event = "UserPromptSubmit" /\ HasSession /\ store0[Focus] # None
        /\ \E i \in DOMAIN rules : rules[i] = FocusInject)
    => OutputContains(store0[Focus])

\* the value leaves the store only in a pass that has executed a ClearState
KeptUntilCleared ==
    /\ pc = "idle" => store0 = store
    /\ (InPass /\ store0[Focus] # None /\ store[Focus] # store0[Focus])
          => \E k \in ClearIndices : k < idx

\* a pass that began with the key unset does not match the StateExists rule
NoInjectWhileUnset ==
    (InPass /\ hook_event = "UserPromptSubmit" /\ (~HasSession \/ store0[Focus] = None))
    => \A k \in DOMAIN matches : matches[k].rule_name # "focus-inject"

LastResponse == Get(context, "last_response", "")

\* index in Members of the output_missing sub-trigger
OutputMissingMember == CHOOSE i \in DOMAIN Members : Members[i] = "output_missing"

\* the trigger fires iff it has patterns and none of them occurs in the text
OutputMissingFires(t) ==
    /\ t.required_patterns # {}
    /\ \A p \in t.required_patterns : ~StrIn(p, LastResponse)

\* C11: OutputMissingTrigger matches iff required_patterns is non-empty and none
\* of the required patterns is a substring of last_response, a missing
\* last_response counting as the empty text; with one required pattern present it
\* yields no match, and the evidence of a match is the whole required_patterns
\* set.  Checked on the trigger of every group of every rule, and on the matches
\* analyze_hook returns for the rules whose only active member is the trigger.
C11_OutputMissing ==
    LastResponse # None =>
        /\ \A i \in DOMAIN rules : \A e \in DOMAIN rules[i].triggers :
              \A j \in DOMAIN rules[i].triggers[e].groups :
                 LET t == rules[i].triggers[e].groups[j].output_missing
                 IN  match_output_missing_trigger(t, context)
                        = IF OutputMissingFires(t) THEN t.required_patterns ELSE {}
        /\ (pc # "idle" /\ DOMAIN context # {}) =>
              \A i \in DOMAIN rules :
                 LET groups == RuleGroups(rules[i], hook_event)
                 IN  (Len(groups) = 1 /\ ActiveMembers(groups[1]) = {OutputMissingMember})
                     => ((\E k \in DOMAIN matches :
                             /\ matches[k].rule_name = rules[i].name
                             /\ matches[k].matched_patterns
                                   = groups[1].output_missing.required_patterns)
                         <=> OutputMissingFires(groups[1].output_missing))

\* the response holds tdd_evidence only: the rule requiring tests_written fires,
\* the rule requiring both tdd_evidence and tests_written does not
C11_Witness ==
    /\ pc # "idle"
    /\ hook_event = "SubagentStop"
    /\ Get(context, "agent_types", "") = "Coder"
    /\ LastResponse = "tdd_evidence: pass"
    /\ \E i \in DOMAIN rules : rules[i] = TddBlock
    /\ \E i \in DOMAIN rules : rules[i] = SuggestReview
    /\ Len(matches) = 1
    /\ matches[1].rule_name = "suggest-review"
    /\ matches[1].matched_patterns = {"tests_written"}

\* the named groups of a path pattern
NamedGroups(pattern) ==
    IF pattern = SpecPathPattern THEN {"spec_id"}
    ELSE IF pattern = AreaPathPattern THEN {"area"}
    ELSE {}

\* a group combining tool_result with a files_changed whose pattern has a named group
CombinesToolAndNamedPath(g) ==
    /\ MemberActive(g, "tool_result")
    /\ MemberActive(g, "files_changed")
    /\ \E p \in g.files_changed.path_patterns : NamedGroups(p) # {}

\* the (pattern, changed file index) pairs of the trigger on which the regex hits
PathHits(t) ==
    LET changed_files == Get(context, "changed_files", <<>>)
    IN  {h \in t.path_patterns \X DOMAIN changed_files :
            re_search(h[1], changed_files[h[2]], FALSE) = "match"}

\* c maps every named group of a hitting pattern to the text it captured
CapturesOfHits(c, t) ==
    /\ DOMAIN c = UNION {NamedGroups(h[1]) : h \in PathHits(t)}
    /\ \A n \in DOMAIN c :
          \E h \in PathHits(t) :
             /\ n \in NamedGroups(h[1])
             /\ c[n] = groupdict(h[1], context.changed_files[h[2]])[n]

\* C12: when the group of a rule that matched combines ToolResultTrigger with a
\* FilesChangedTrigger whose path pattern has a named group, analyze_hook returns
\* exactly one Match for the rule, its captures map each named group to the text
\* captured from the matching changed path, and they are exactly the captures of
\* the group that matched.
C12_CapturesOfMatchedGroup ==
    (pc # "idle" /\ DOMAIN context # {}) =>
        \A i \in DOMAIN rules :
           LET groups == RuleGroups(rules[i], hook_event)
           IN  ((\A j \in DOMAIN groups : ~GroupRaises(groups[j], context))
                  /\ MatchingGroups(groups) # {}
                  /\ CombinesToolAndNamedPath(groups[Min(MatchingGroups(groups))]))
               => /\ Cardinality({k \in DOMAIN matches :
                                     matches[k].rule_name = rules[i].name}) = 1
                  /\ \A k \in DOMAIN matches :
                        matches[k].rule_name = rules[i].name =>
                           /\ CapturesOfHits(matches[k].captures,
                                   groups[Min(MatchingGroups(groups))].files_changed)
                           /\ matches[k].captures
                                 = match_trigger_group(groups[Min(MatchingGroups(groups))],
                                                       context, store0).captures

\* TodoWrite on the task file of my-feature: focus-set matches with spec_id captured
C12_Witness ==
    /\ pc # "idle"
    /\ hook_event = "Stop"
    /\ \E i \in DOMAIN rules : rules[i] = FocusSet
    /\ \E k \in DOMAIN matches :
          /\ matches[k].rule_name = "focus-set"
          /\ matches[k].captures = [spec_id |-> "my-feature"]
          /\ matches[k].matched_patterns = {"TodoWrite", SpecPathPattern}

\* the action types among the matches of the pass
MatchTypes == {matches[k].action.type : k \in DOMAIN matches}

\* C13: when the context has no session_id, or an empty one, _execute_actions
\* performs no store operation: whatever SetState and ClearState matches the pass
\* has, the store stays as it was when the pass began and nothing is raised.
C13_NoSessionNoStoreOp ==
    /\ []((InPass /\ ~HasSession) =>
             /\ store = store0
             /\ writes = 0
             /\ pc # "raised"
             /\ raised # "execute_actions")
    /\ [][(pc = "exec" /\ ~HasSession) =>
             (store' = store /\ pc' = "done" /\ raised' = "" /\ out' = out)]_vars

\* a pass without session_id whose matches hold a SetState and a ClearState has
\* returned, and the focus an earlier pass set is still there
C13_Witness ==
    /\ pc = "done"
    /\ "session_id" \notin DOMAIN context
    /\ {"set_state", "clear_state"} \subseteq MatchTypes
    /\ store[Focus] = "my-feature"

Listed(types, tiers) ==
    {k \in DOMAIN matches :
        matches[k].action.type \in types /\ matches[k].priority \in tiers}

\* the j-th index of S in increasing order
NthOf(S, j) == CHOOSE k \in S : Cardinality({l \in S : l < k}) = j - 1

\* the entries of the reminder written: the lines below its three header lines
ReminderEntries ==
    IF out = <<>> THEN <<>> ELSE SubSeq(out[1].text, 4, Len(out[1].text))

\* one reminder at most, listing every high match of the types, or else the
\* first two lower-tier ones; nothing when there is none
ReminderLists(types) ==
    LET high == Listed(types, {"high"})
        lower == Listed(types, {"medium", "low"})
    IN  /\ Len(out) <= 1
        /\ out = <<>> <=> (high = {} /\ lower = {})
        /\ Len(ReminderEntries)
              = IF high # {} THEN Cardinality(high)
                ELSE IF Cardinality(lower) < 2 THEN Cardinality(lower) ELSE 2

\* the line of a high SuggestSkill match: the configured reason or "Use {skill}"
HighEntry(action) ==
    IF action.reason # "" THEN <<"  - ", action.skill, ": ", action.reason>>
    ELSE <<"  - ", action.skill, ": ", "Use ", action.skill>>

\* C15, what format_reminder does: the Stop output is at most one reminder over
\* the SuggestSkill matches alone.  With a high-priority SuggestSkill match it
\* lists each of them, in match order, with its configured reason or "Use
\* {skill}"; otherwise it lists the first two lower-tier SuggestSkill matches
\* without reasons; without a SuggestSkill match nothing is written, Remind
\* matches of any priority included.
C15_StopReminder ==
    (pc # "idle" /\ hook_event = "Stop") =>
        /\ ReminderLists({"suggest_skill"})
        /\ \A j \in DOMAIN ReminderEntries :
              LET high == Listed({"suggest_skill"}, {"high"})
                  lower == Listed({"suggest_skill"}, {"medium", "low"})
              IN  ReminderEntries[j]
                    = IF high # {} THEN HighEntry(matches[NthOf(high, j)].action)
                      ELSE <<"  - ", matches[NthOf(lower, j)].action.skill>>

\* C15 as stated: Remind matches are listed like SuggestSkill matches, so that a
\* high-priority Remind match alone produces a reminder line.
C15_AsStated ==
    (pc # "idle" /\ hook_event = "Stop") => ReminderLists({"suggest_skill", "remind"})

\* three lower-tier suggestions matched on Stop and the reminder lists the first two
C15_Witness ==
    /\ pc # "idle"
    /\ hook_event = "Stop"
    /\ Cardinality(Listed({"suggest_skill"}, {"medium", "low"})) = 3
    /\ ReminderEntries = <<<<"  - ", "testing">>, <<"  - ", "deploy">>>>

\* the header line of a priority tier in the suggestion block
TierHeader(tier) ==
    CASE tier = "high" -> <<"HIGH PRIORITY:">>
      [] tier = "medium" -> <<"MEDIUM PRIORITY:">>
      [] tier = "low" -> <<"LOW PRIORITY:">>

\* positions of a line in a block of lines
LinesAt(block, line) == {n \in DOMAIN block : block[n] = line}

\* block is the suggestion text grouped by priority: a header for each tier that
\* has a SuggestSkill match and for no other, tiers in the order high, medium,
\* low, and below its tier's header one entry line for each match
SuggestionBlock(block) ==
    /\ block[1] = <<"SKILL ACTIVATION SUGGESTION">>
    /\ \A tier \in {"high", "medium", "low"} :
          Cardinality(LinesAt(block, TierHeader(tier)))
             = IF Listed({"suggest_skill"}, {tier}) # {} THEN 1 ELSE 0
    /\ \A t1, t2 \in {"high", "medium", "low"} :
          (PRIORITY_ORDER(t1) < PRIORITY_ORDER(t2)
             /\ LinesAt(block, TierHeader(t1)) # {} /\ LinesAt(block, TierHeader(t2)) # {})
          => Max(LinesAt(block, TierHeader(t1))) < Min(LinesAt(block, TierHeader(t2)))
    /\ \A k \in Listed({"suggest_skill"}, {"high", "medium", "low"}) :
          \E n \in LinesAt(block, <<"  - ", matches[k].action.skill>>) :
             /\ n > Min(LinesAt(block, TierHeader(matches[k].priority)))
             /\ \A t \in {"high", "medium", "low"} :
                   PRIORITY_ORDER(t) > PRIORITY_ORDER(matches[k].priority)
                      => \A h \in LinesAt(block, TierHeader(t)) : n < h
    /\ Cardinality({n \in DOMAIN block : block[n][1] = "  - "})
          = Cardinality(Listed({"suggest_skill"}, {"high", "medium", "low"}))

\* C16: on SubagentStop, when the matches hold no Block and no SuggestSkill (no
\* match at all included), nothing is written, not even an empty envelope; with
\* no Block and at least one SuggestSkill, one envelope with hookEventName
\* SubagentStop is written that carries the priority-grouped suggestion block.
C16_SubagentStopOutput ==
    (pc # "idle" /\ hook_event = "SubagentStop" /\ BlockIndices = {}) =>
        IF Listed({"suggest_skill"}, {"high", "medium", "low"}) = {}
        THEN out = <<>>
        ELSE /\ Len(out) = 1
             /\ out[1].json = "hookSpecificOutput"
             /\ out[1].hookEventName = "SubagentStop"
             /\ Len(out[1].additionalContext) = 1
             /\ SuggestionBlock(out[1].additionalContext[1])

\* a Remind match alone on SubagentStop: there are matches and nothing is written
C16_Witness ==
    /\ pc # "idle"
    /\ hook_event = "SubagentStop"
    /\ Len(matches) = 1
    /\ matches[1].action.type = "remind"
    /\ out = <<>>

\* a step that replaces the value of a set key by another value
Overwrite ==
    \E path \in StatePaths :
        store[path] # None /\ store'[path] # None /\ store'[path] # store[path]

\* C17: the no-overwrite guard of SetState is a check followed by a write with no
\* lock.  It holds for a pass no other process overlaps: a step that overwrites the
\* value of a set key is the write of a process whose pass ran alongside another
\* one.  With two processes interleaved on the same (session_id, key) both pass
\* the existence check on the unset key and the later write replaces the earlier
\* value.
C17_GuardNeedsSerialization ==
    [][Overwrite =>
          \E p \in Procs :
             /\ procs[p].pc = "write"
             /\ procs'[p].wrote = store'[<<procs[p].context.session_id,
                                           ProcMatch(p).action.key>>]
             /\ procs[p].overlapped]_vars

\* both processes wrote in passes that clear nothing, and the store holds the later value
C17_Witness ==
    /\ via = "concurrent"
    /\ procs[1].wrote = "my-feature"
    /\ procs[2].wrote = "other"
    /\ store[Focus] = "other"
    /\ \A p \in Procs : \A k \in DOMAIN procs[p].matches :
          procs[p].matches[k].action.type = "set_state"

\* the value_from of the match is not captured.<name> with <name> among its captures
Unresolved(m) ==
    \/ m.action.value_from \notin {"captured.spec_id", "captured.name"}
    \/ m.action.value_from = "captured.spec_id" /\ "spec_id" \notin DOMAIN m.captures
    \/ m.action.value_from = "captured.name" /\ "name" \notin DOMAIN m.captures

\* C18: when the value_from of a SetState match cannot be resolved, executing the
\* match writes nothing: the store is unchanged, so an unset key stays unset,
\* nothing is raised, and the loop goes on to the next match.
C18_UnresolvedSkipsWrite ==
    [][(AtMatch("set_state") /\ Unresolved(matches[idx])) =>
          (store' = store /\ raised' = "" /\ pc' = "exec" /\ idx' = idx + 1
             /\ writes' = writes)]_vars

\* the first match did not resolve and was skipped; the SetState match after it
\* was executed and set the key
C18_Witness ==
    /\ pc = "exec"
    /\ HasSession
    /\ Len(matches) = 2
    /\ idx = 3
    /\ matches[1].action.type = "set_state"
    /\ Unresolved(matches[1])
    /\ store0[Focus] = None
    /\ store[Focus] = "my-feature"
    /\ writes = 1

\* what a piece of a template is to become: the value of the key of a
\* {state.KEY} placeholder when the pass has a session and the key is set, the
\* piece itself otherwise
Interpolated(piece) ==
    IF piece \in {"{state.focus}", "{state.owner}"}
          /\ HasSession
          /\ <<context.session_id, PlaceholderKey(piece)>> \in DOMAIN store0
          /\ store0[<<context.session_id, PlaceholderKey(piece)>>] # None
    THEN store0[<<context.session_id, PlaceholderKey(piece)>>]
    ELSE piece

\* the InjectContext matches of the pass
InjectIndices == {k \in DOMAIN matches : matches[k].action.type = "inject_context"}

\* position in additionalContext of the block of the InjectContext match k
InjectPosition(k) ==
    (IF Listed({"suggest_skill"}, {"high", "medium", "low"}) # {} THEN 1 ELSE 0)
    + Cardinality({l \in InjectIndices : l <= k})

\* C19: in the UserPromptSubmit output each {state.KEY} placeholder of an
\* InjectContext template is replaced by get(session_id, KEY) when the key is set
\* and left verbatim when the key is unset or the context has no session_id;
\* every other piece of the template is written as it is, and the store is not
\* modified.
C19_PlaceholderInterpolation ==
    (pc # "idle" /\ hook_event = "UserPromptSubmit" /\ InjectIndices # {}) =>
        /\ store = store0
        /\ Len(out) = 1
        /\ out[1].json = "hookSpecificOutput"
        /\ \A k \in InjectIndices :
              out[1].additionalContext[InjectPosition(k)]
                 = <<[i \in DOMAIN matches[k].action.context |->
                        Interpolated(matches[k].action.context[i])]>>

\* one template with a placeholder whose key is set and one whose key is not
C19_Witness ==
    /\ pc # "idle"
    /\ hook_event = "UserPromptSubmit"
    /\ HasSession
    /\ \E k \in InjectIndices :
          /\ matches[k].rule_name = "inject-status"
          /\ out[1].additionalContext[InjectPosition(k)]
                = <<<<"Focus ", "my-feature", " of ", "{state.owner}">>>>

\* the tool-use records of the context
ToolRecords == Get(context, "tool_results", <<>>)

\* pattern pat of the configured parameter param matches that parameter of record i
ParamHit(t, i, param, pat) ==
    /\ Get(ToolRecords[i], "tool_name", "") \in t.tool_name
    /\ param \in DOMAIN Get(ToolRecords[i], "parameters", EmptyDict)
    /\ ToolRecords[i].parameters[param] # ""
    /\ re_search(pat, ToolRecords[i].parameters[param], TRUE) = "match"

\* the records that count as a hit of the trigger
ToolHits(t) ==
    {i \in DOMAIN ToolRecords :
        /\ Get(ToolRecords[i], "tool_name", "") \in t.tool_name
        /\ DOMAIN t.parameter_patterns # {} =>
              \E param \in DOMAIN t.parameter_patterns :
                 \E pat \in t.parameter_patterns[param] : ParamHit(t, i, param, pat)}

\* the evidence is the tool names of the hits and the parameter patterns that
\* matched a configured parameter of a hit
ToolEvidence(t) ==
    {ToolRecords[i].tool_name : i \in ToolHits(t)}
    \cup {pat \in UNION {t.parameter_patterns[param] :
                            param \in DOMAIN t.parameter_patterns} :
             \E i \in ToolHits(t) : \E param \in DOMAIN t.parameter_patterns :
                pat \in t.parameter_patterns[param] /\ ParamHit(t, i, param, pat)}

\* C20: with parameter_patterns configured, a record whose tool name is in the set
\* counts only if a configured parameter of that same record regex-matches one of
\* its patterns; a tool-name hit without a parameter match gives no evidence, and
\* the evidence of a hit is the tool name plus the matched parameter patterns.
\* Without parameter_patterns the trigger matches iff some record's tool name is
\* in the set.
C20_ParameterRefinement ==
    \A i \in DOMAIN rules : \A e \in DOMAIN rules[i].triggers :
        \A j \in DOMAIN rules[i].triggers[e].groups :
           LET t == rules[i].triggers[e].groups[j].tool_result
           IN  ~tool_result_raises(t, context) =>
                  /\ match_tool_result_trigger(t, context) = ToolEvidence(t)
                  /\ match_tool_result_trigger(t, context) # {} <=> ToolHits(t) # {}

\* Edit of README.md and Write of a task file: the Edit trigger refined by the
\* file_path pattern has a tool-name hit and a parameter match, but not in the
\* same record, and the rule does not match
C20_Witness ==
    /\ pc # "idle"
    /\ hook_event = "Stop"
    /\ Len(ToolRecords) = 2
    /\ ToolRecords[1].tool_name = "Edit"
    /\ ToolRecords[2].tool_name = "Write"
    /\ \E i \in DOMAIN rules : rules[i] = RemindCommit
    /\ \A k \in DOMAIN matches : matches[k].rule_name # "remind-commit"

\* the changed files of the context
ChangedFiles == Get(context, "changed_files", <<>>)

\* the files_changed triggers of the groups of the rules of the pass
FilesChangedTriggers ==
    UNION {{RuleGroups(rules[i], hook_event)[j].files_changed :
               j \in DOMAIN RuleGroups(rules[i], hook_event)} : i \in DOMAIN rules}

\* indices of the changed files whose path is hit by a path pattern of the trigger
PathHitFiles(t) ==
    {i \in DOMAIN ChangedFiles :
        \E p \in t.path_patterns :
           \/ re_search(p, ChangedFiles[i], FALSE) = "match"
           \/ re_search(p, ChangedFiles[i], FALSE) = "error" /\ PathMatch(ChangedFiles[i], p)}

\* the content patterns of the trigger found in the text of changed file i
ContentHits(t, i) ==
    IF FileContent(ChangedFiles[i]) = None THEN {}
    ELSE {c \in t.content_patterns :
             re_search(c, FileContent(ChangedFiles[i]), TRUE) = "match"}

\* C21, as the code has it: with content_patterns and path_patterns set, the
\* trigger matches iff some path pattern hits a changed file and some changed
\* file, path-matching or not, has content matching a content pattern; otherwise
\* evidence and captures are both empty.  On a match the evidence holds content
\* patterns next to the path patterns.
C21_ContentAllOrNothing ==
    \A t \in FilesChangedTriggers :
        (t.content_patterns # {} /\ t.path_patterns # {}) =>
            LET r == match_files_changed_trigger(t, context)
                content == UNION {ContentHits(t, i) : i \in DOMAIN ChangedFiles}
            IN  /\ r.matched # {} <=> (PathHitFiles(t) # {} /\ content # {})
                /\ r.matched = {} => r.captures = EmptyDict
                /\ r.matched # {} => r.matched \cap t.content_patterns = content

\* C21 as stated: the trigger matches only if a changed file that matched a path
\* pattern has content matching a content pattern
C21_AsStated ==
    pc # "idle" =>
        \A t \in FilesChangedTriggers :
            (t.content_patterns # {}
               /\ match_files_changed_trigger(t, context).matched # {}) =>
                \E i \in PathHitFiles(t) : ContentHits(t, i) # {}

\* a changed task file that does not exist on disk: the path pattern hits, no
\* content matches, and content-gate does not match
C21_Witness ==
    /\ pc # "idle"
    /\ ChangedFiles = <<"specs/active/other/tasks.md">>
    /\ \E i \in DOMAIN rules : rules[i] = ContentGate
    /\ \A k \in DOMAIN matches : matches[k].rule_name # "content-gate"

\* the path patterns of the trigger that hit some changed file as a regex
RegexHitPatterns(t) ==
    {p \in t.path_patterns :
        \E i \in DOMAIN ChangedFiles : re_search(p, ChangedFiles[i], FALSE) = "match"}

\* the path patterns on which re.search raises re.error and which hit some
\* changed file as a glob
GlobHitPatterns(t) ==
    {p \in t.path_patterns :
        \E i \in DOMAIN ChangedFiles :
           /\ re_search(p, ChangedFiles[i], FALSE) = "error"
           /\ PathMatch(ChangedFiles[i], p)}

FlatFields(ts) == [m \in DOMAIN DefaultGroup |-> ts[m]]

\* some flat field holds configuration
AnyFlatField(flat) ==
    \/ DOMAIN flat.patterns # {}
    \/ flat.tool_result.tool_name # {}
    \/ flat.todo_state.any_completed \/ flat.todo_state.all_completed
    \/ flat.skill_invoked.skill # ""
    \/ flat.output_missing.required_patterns # {}
    \/ flat.files_changed.path_patterns # {} \/ flat.files_changed.content_patterns # {}
    \/ flat.state_exists.key # ""

\* the rule with the flat fields of its trigger spec for the event emptied
WithoutFlatFields(rule, event) ==
    [rule EXCEPT !.triggers[event] = Update(DefaultGroup, [groups |-> rule.triggers[event].groups])]

\* C23: a TriggerSpec built from flat fields without explicit groups has exactly
\* one group holding all the flat fields iff some flat field is non-empty, and no
\* group, hence never a match, when all are empty; evaluation reads only the
\* groups: the flat fields next to explicit groups change nothing.
C23_ImplicitGroup ==
    \A i \in DOMAIN rules :
        hook_event \in DOMAIN rules[i].triggers =>
            LET ts == rules[i].triggers[hook_event]
                built == TriggerSpec(FlatFields(ts), <<>>)
            IN  /\ AnyFlatField(FlatFields(ts)) => built.groups = <<FlatFields(ts)>>
                /\ ~AnyFlatField(FlatFields(ts)) => built.groups = <<>>
                /\ FlatFields(built) = FlatFields(ts)
                /\ match_rule(WithoutFlatFields(rules[i], hook_event), hook_event,
                              context, store0)
                      = match_rule(rules[i], hook_event, context, store0)
                /\ (pc # "idle" /\ ts.groups = <<>>) =>
                      \A k \in DOMAIN matches : matches[k].rule_name # rules[i].name

\* todo-both matches through its implicit group; shadowed does not match although
\* its flat tool trigger alone would, and no-trigger has no group
C23_Witness ==
    /\ pc # "idle"
    /\ \E i \in DOMAIN rules : rules[i] = Shadowed
    /\ \E i \in DOMAIN rules :
          /\ rules[i] = TodoBoth
          /\ rules[i].triggers.Stop.groups = <<FlatFields(rules[i].triggers.Stop)>>
    /\ NoTrigger.triggers.Stop.groups = <<>>
    /\ match_tool_result_trigger(Shadowed.triggers.Stop.tool_result, context) # {}
    /\ Len(matches) = 1
    /\ matches[1].rule_name = "todo-both"

\* the rules of the pass whose first group for the event has state_exists as
\* its only active member
StateExistsRules ==
    {i \in DOMAIN rules :
        /\ RuleGroups(rules[i], hook_event) # <<>>
        /\ ActiveMembers(RuleGroups(rules[i], hook_event)[1]) = {7}}

\* the key is set under the session of the context in store st
KeySet(key, st) ==
    /\ key # ""
    /\ Get(context, "session_id", "") # ""
    /\ st[<<context.session_id, key>>] # None

\* such a rule matched in this pass iff the pass started with the key set
MatchesWhereKeySet ==
    pc # "idle" =>
        \A i \in StateExistsRules :
           LET key == RuleGroups(rules[i], hook_event)[1].state_exists.key
           IN  /\ (\E k \in DOMAIN matches : matches[k].rule_name = rules[i].name)
                      <=> KeySet(key, store0)
               /\ match_state_exists_trigger(StateExistsTrigger(key), context, store)
                      = IF KeySet(key, store) THEN {key} ELSE {}
               /\ match_state_exists_trigger(StateExistsTrigger(""), context, store) = {}

\* the step that evaluates the triggers leaves the store as it was
EvaluationKeepsStore == pc = "idle" => store' = store

\* C24: StateExistsTrigger{key} matches iff key is non-empty, the context has a
\* non-empty session_id and the key exists under it in the store when the pass
\* evaluates its triggers; over a sequence of passes it matches exactly in those
\* that start with the key set, and evaluating it never changes the store.
C24_StateExists == []MatchesWhereKeySet /\ [][EvaluationKeepsStore]_vars

\* a prompt with the session's focus set by an earlier pass: focus-inject matches
C24_Witness ==
    /\ pc # "idle"
    /\ hook_event = "UserPromptSubmit"
    /\ KeySet("focus", store0)
    /\ StateExistsRules # {}
    /\ \E k \in DOMAIN matches : matches[k].rule_name = "focus-inject"

\* the groups of the rules of the pass in which two or more text-pattern fields
\* are configured and nothing else is active, as <<rule index, group index>>
TwoFieldGroups ==
    {h \in (DOMAIN rules) \X {1, 2} :
        /\ h[2] \in DOMAIN RuleGroups(rules[h[1]], hook_event)
        /\ LET g == RuleGroups(rules[h[1]], hook_event)[h[2]]
           IN  /\ ActiveMembers(g) = {1}
               /\ Cardinality({f \in DOMAIN g.patterns : g.patterns[f] # {}}) >= 2}

\* the patterns of one text field found in the context value of that field
FieldHits(g, f) ==
    IF Get(context, f, "") \in {"", None} THEN {}
    ELSE ApplyMatcher(FIELD_MATCHERS(f), context[f], g.patterns[f])

\* C25, as the code has it: the text-pattern fields of a group are one member
\* together, and that member matches when any configured field matches; a group
\* with two text-pattern fields and nothing else matches iff at least one of the
\* fields matches, with the matched patterns of all fields as evidence.
C25_TextFieldsOr ==
    (pc # "idle" /\ DOMAIN context # {}) =>
        \A h \in TwoFieldGroups :
           LET g == RuleGroups(rules[h[1]], hook_event)[h[2]]
               r == match_trigger_group(g, context, store0)
               hits == UNION {FieldHits(g, f) : f \in DOMAIN g.patterns}
           IN  /\ ~r.is_none <=> hits # {}
               /\ ~r.is_none => r.matched_patterns = hits
               /\ (Len(RuleGroups(rules[h[1]], hook_event)) = 1) =>
                     ((\E k \in DOMAIN matches : matches[k].rule_name = rules[h[1]].name)
                         <=> hits # {})

\* C25 as stated: such a group matches only if every configured field matches
C25_AsStated ==
    (pc # "idle" /\ DOMAIN context # {}) =>
        \A h \in TwoFieldGroups :
           LET g == RuleGroups(rules[h[1]], hook_event)[h[2]]
           IN  ~match_trigger_group(g, context, store0).is_none =>
                  \A f \in DOMAIN g.patterns : FieldHits(g, f) # {}

\* "deploy the app": the keywords field matches, intent_patterns does not, and
\* two-fields is among the matches with the keyword as its evidence
C25_Witness ==
    /\ pc # "idle"
    /\ hook_event = "UserPromptSubmit"
    /\ TwoFieldGroups # {}
    /\ \E k \in DOMAIN matches :
          /\ matches[k].rule_name = "two-fields"
          /\ matches[k].matched_patterns = {"deploy"}
          /\ FieldHits(TwoFields.triggers.UserPromptSubmit.groups[1], "intent_patterns") = {}

\* how many matches of the pass _execute_actions has gone through
Executed == IF pc = "exec" THEN idx - 1 ELSE Len(matches)

\* the last ClearState on the focus key among the first n matches, 0 when none
LastClear(n) == Max({k \in ClearIndices : k <= n} \cup {0})

\* the SetState matches with a value among the first n matches that come after
\* the last ClearState
SetsAfterClear(n) == {k \in SetIndices : LastClear(n) < k /\ k <= n}

\* what the focus key holds after the first n matches have been executed in order
FocusAfter(n) ==
    IF SetsAfterClear(n) # {} /\ (LastClear(n) > 0 \/ store0[Focus] = None)
    THEN CapturedValue(Min(SetsAfterClear(n)))
    ELSE IF LastClear(n) > 0 THEN None
    ELSE store0[Focus]

\* C26: the state actions of a pass are applied one after another in sorted
\* match order, each on the store the earlier ones left.  Of two SetState matches
\* on the same unset key the first in sorted order writes its value and the
\* second is skipped; a ClearState before a SetState on an existing key lets the
\* set write; a SetState before a ClearState leaves the key unset.
C26_SequentialStateActions ==
    (pc \in {"exec", "done"} /\ HasSession /\ raised = "") =>
        /\ store[Focus] = FocusAfter(Executed)
        /\ (pc = "done" /\ store0[Focus] = None /\ ClearIndices = {} /\ SetIndices # {})
              => (store[Focus] = CapturedValue(Min(SetIndices)) /\ writes = 1)
        /\ (pc = "done" /\ store0[Focus] # None /\ ClearIndices # {} /\ SetIndices # {}
               /\ Max(ClearIndices) < Min(SetIndices))
              => store[Focus] = CapturedValue(Min(SetIndices))
        /\ (pc = "done" /\ ClearIndices # {} /\ SetIndices # {}
               /\ Max(SetIndices) < Max(ClearIndices))
              => store[Focus] = None

\* two SetState matches with different values on the unset focus key, the one
\* of higher priority listed second in the rule set: the store holds its value
C26_Witness ==
    /\ pc = "done"
    /\ raised = ""
    /\ HasSession
    /\ store0[Focus] = None
    /\ rules = <<FocusSetArea, FocusSet>>
    /\ Cardinality(SetIndices) = 2
    /\ CapturedValue(1) # CapturedValue(2)
    /\ matches[1].rule_name = "focus-set"
    /\ store[Focus] = CapturedValue(1)
    /\ writes = 1

\* a pass without matches has written nothing to the store
NoMatchNoWrite == (InPass /\ matches = <<>>) => (store = store0 /\ writes = 0)

\* a step of a pass: matching and formatting keep the store, the context stays
\* as built, and the store changes only where _execute_actions runs a SetState
\* or ClearState match
ReadOnlyStep ==
    /\ pc = "idle" => (store' = store /\ store0' = store)
    /\ (pc # "idle" /\ pc' # "idle") => (context' = context /\ rules' = rules
                                            /\ matches' = matches)
    /\ store' # store =>
          /\ pc = "exec"
          /\ HasSession
          /\ idx \in DOMAIN matches
          /\ matches[idx].action.type \in {"set_state", "clear_state"}

\* C27: rule matching and output formatting are read-only on the state store
\* and the context: after analyze_hook and the event's formatter the store equals
\* the store before; the store is changed only by _execute_actions, and a pass
\* with zero matches performs no store write.
C27_MatchingReadOnly == []NoMatchNoWrite /\ [][ReadOnlyStep]_vars

\* a finished prompt pass that found the focus key, interpolated its value into
\* the output and left the store as it was
C27_Witness ==
    /\ pc = "done"
    /\ hook_event = "UserPromptSubmit"
    /\ HasSession
    /\ store0[Focus] # None
    /\ \E k \in DOMAIN matches : matches[k].action.type = "inject_context"
    /\ OutputContains(store0[Focus])
    /\ store = store0
    /\ writes = 0

\* a Stop pass through dispatch whose payload has a TodoWrite result on the task
\* file of my-feature, with focus-set among the rules and the focus key unset
StopPayloadOnTaskFile ==
    /\ via = "dispatch"
    /\ pc = "done"
    /\ hook_event = "Stop"
    /\ raised = ""
    /\ Get(context, "file_paths", <<>>) = <<"specs/active/my-feature/tasks.md">>
    /\ \E i \in DOMAIN context.tool_results :
          context.tool_results[i].tool_name = "TodoWrite"
    /\ \E i \in DOMAIN rules : rules[i] = FocusSet
    /\ store0[Focus] = None

\* a prompt pass through dispatch with focus-inject among the rules and the
\* focus key of the session set
PromptPayloadWithFocus ==
    /\ via = "dispatch"
    /\ pc # "idle"
    /\ hook_event = "UserPromptSubmit"
    /\ raised = ""
    /\ \E i \in DOMAIN rules : rules[i] = FocusInject
    /\ store0[Focus] # None

\* C28, as the code has it: the context dispatch builds has neither session_id
\* nor changed_files, so in a pass through dispatch no rule with a files_changed
\* or state_exists member matches and the store is left as it was.
C28_DispatchContext ==
    (via = "dispatch" /\ pc # "idle") =>
        /\ "session_id" \notin DOMAIN context
        /\ "changed_files" \notin DOMAIN context
        /\ store = store0
        /\ \A k \in DOMAIN matches :
              \A i \in DOMAIN rules :
                 rules[i].name = matches[k].rule_name =>
                    \A j \in DOMAIN RuleGroups(rules[i], hook_event) :
                       ActiveMembers(RuleGroups(rules[i], hook_event)[j]) \cap {6, 7} = {}

\* C28 as stated: through dispatch the context carries session_id and
\* changed_files, the matching SetState rule sets the unset key, and a prompt
\* of the same session lets the StateExists rule on the key match
C28_AsStated ==
    /\ StopPayloadOnTaskFile =>
          /\ Get(context, "session_id", "") = "s1"
          /\ Get(context, "changed_files", <<>>) # <<>>
          /\ store[Focus] = "my-feature"
    /\ PromptPayloadWithFocus =>
          \E k \in DOMAIN matches : matches[k].rule_name = "focus-inject"

\* the Stop payload of the claim has gone through dispatch: nothing matched and
\* the focus key is still unset
C28_Witness ==
    /\ StopPayloadOnTaskFile
    /\ matches = <<>>
    /\ store[Focus] = None

\* the trigger has content patterns and no path pattern
ContentPatternsOnly(t) == t.path_patterns = {} /\ t.content_patterns # {}

\* C29: a FilesChangedTrigger with content_patterns and no path_patterns is
\* active and never matches: its evidence is empty in every context, and no
\* group that contains it matches.
C29_ContentOnlyNeverMatches ==
    \A i \in DOMAIN rules :
        \A j \in DOMAIN RuleGroups(rules[i], hook_event) :
           LET g == RuleGroups(rules[i], hook_event)[j]
           IN  ContentPatternsOnly(g.files_changed) =>
                  /\ files_changed_is_active(g.files_changed)
                  /\ 6 \in ActiveMembers(g)
                  /\ match_files_changed_trigger(g.files_changed, context)
                        = [matched |-> {}, captures |-> EmptyDict]
                  /\ match_trigger_group(g, context, store0).is_none
                  /\ (pc # "idle"
                        /\ \A n \in DOMAIN RuleGroups(rules[i], hook_event) :
                              ContentPatternsOnly(
                                  RuleGroups(rules[i], hook_event)[n].files_changed))
                     => \A k \in DOMAIN matches : matches[k].rule_name # rules[i].name

\* the changed task file holds a TODO that the content pattern finds, the
\* TodoWrite trigger next to it matches, and content-only does not match
C29_Witness ==
    /\ pc # "idle"
    /\ ChangedFiles = <<"specs/active/my-feature/tasks.md">>
    /\ \E i \in DOMAIN rules :
          /\ rules[i] = ContentOnly
          /\ ContentHits(rules[i].triggers.Stop.groups[2].files_changed, 1) = {"todo"}
          /\ match_tool_result_trigger(rules[i].triggers.Stop.groups[2].tool_result,
                                       context) # {}
    /\ \A k \in DOMAIN matches : matches[k].rule_name # "content-only"

\* the requested flags of a todo_state trigger that hold in the context
FlagsHolding(t) ==
    {f \in {"any_completed", "all_completed"} :
        t[f] /\ "todo_state" \in DOMAIN context /\ context.todo_state[f]}

\* C30: a TodoStateTrigger requesting both any_completed and all_completed
\* counts as matched in its group when at least one requested flag holds in the
\* context, with the requested flags that hold as evidence; both are not needed.
C30_TodoStateEitherFlag ==
    \A i \in DOMAIN rules :
        \A j \in DOMAIN RuleGroups(rules[i], hook_event) :
           LET g == RuleGroups(rules[i], hook_event)[j]
               t == g.todo_state
           IN  (t.any_completed /\ t.all_completed) =>
                  /\ match_todo_state_trigger(t, context) = FlagsHolding(t)
                  /\ 3 \in MatchedMembers(g, context, store0) <=> FlagsHolding(t) # {}
                  /\ (pc # "idle" /\ ActiveMembers(g) = {3}
                        /\ Len(RuleGroups(rules[i], hook_event)) = 1)
                     => \A k \in DOMAIN matches :
                           matches[k].rule_name = rules[i].name =>
                              matches[k].matched_patterns = FlagsHolding(t)
                  /\ (pc # "idle" /\ ActiveMembers(g) = {3}
                        /\ Len(RuleGroups(rules[i], hook_event)) = 1)
                     => ((\E k \in DOMAIN matches : matches[k].rule_name = rules[i].name)
                            <=> FlagsHolding(t) # {})

\* some todo is completed, not all: todo-both matches on any_completed alone
C30_Witness ==
    /\ pc # "idle"
    /\ context.todo_state = [any_completed |-> TRUE, all_completed |-> FALSE]
    /\ \E i \in DOMAIN rules : rules[i] = TodoBoth
    /\ \E k \in DOMAIN matches :
          /\ matches[k].rule_name = "todo-both"
          /\ matches[k].matched_patterns = {"any_completed"}

=============================================================================
